---------------------------- MODULE Spec2Model ----------------------------
(***************************************************************************)
(* Conversation state machine of the school chatbot                        *)
(* (src/controllers/botController.js) and the services it calls.           *)
(*                                                                         *)
(* A message handler (procesarMensaje) is an async function: it runs       *)
(* synchronously up to an await, is suspended, and is resumed later.  One  *)
(* step of the model is one such synchronous segment: the outcome of the   *)
(* await that ended (a send delivered or rejected, a ledger lookup) and    *)
(* the code up to the next await.  Suspended handlers are kept in enCurso. *)
(* A send that is the last statement of a handler is resolved in the step  *)
(* that starts it, since no code of the handler follows it.                *)
(***************************************************************************)
EXTENDS Integers, Sequences, FiniteSets, Bags, TLC

VARIABLES
  estados,        \* stateService: user -> [estado, datos]
  ultimoSaludo,   \* stateService: user -> date of the last greeting (0: none)
  encargados,     \* encargadoService: user -> sequence of linked student ids
  libro,          \* the rows of the cached workbook, in sheet order
  hoy,            \* current calendar date (a day number)
  enCurso,        \* bag of suspended procesarMensaje calls
  temporizadores, \* user -> number of pending setTimeout(enviarMenuPrincipal)
  saludosHoy,     \* user -> greetings started with stamp hoy (history)
  activos,        \* the users that have sent a message in this run
  evento,         \* what the last step did (history)
  alumnoDeuda,    \* calcularDeuda: the student it is called with
  ahora,          \* calcularDeuda: the instant new Date() returns
  deuda,          \* calcularDeuda: the object it returned (NoDeuda: not called yet)
  panel,          \* enviarEstadoPagos: the month lines it rendered (NoPanel: none yet)
  hoja,           \* buscarEstudiante: the rows of the sheet it scans
  idBuscado,      \* buscarEstudiante: the id it is called with
  hallado,        \* buscarEstudiante: what it returned (NoBuscado: not called yet)
  cachedWorkbook, \* workbook cache: revision of the parsed workbook (0: null)
  lastFetchTime,  \* workbook cache: Date.now() of the call that last filled it
  reloj,          \* Date.now(), in half hours
  revRemota,      \* revision of the spreadsheet behind EXCEL_URL
  llamada,        \* caller -> its getWorkbook call
  ultimoRefresco, \* the time the cache was last filled (history; 0: never)
  accessToken,    \* Dropbox: the held token (0: null)
  lastTokenRefresh, \* Dropbox: time of the last refresh (0: null)
  dropboxInstance,  \* Dropbox: the token the client was built with (0: no client)
  vigente,        \* the token the Dropbox API accepts at present
  archivo,        \* content cache: revision of the cached file (0: no file)
  meta,           \* content cache: rev of the .meta file (0: no file)
  revDropbox,     \* revision of the file in Dropbox
  bajada          \* caller -> its downloadWithRetry call

varsBot == <<estados, ultimoSaludo, encargados, libro, hoy, enCurso,
             temporizadores, saludosHoy, activos, evento>>

varsDeuda == <<alumnoDeuda, ahora, deuda, panel>>

varsLibro == <<hoja, idBuscado, hallado>>

varsCache == <<cachedWorkbook, lastFetchTime, revRemota, llamada, ultimoRefresco>>

varsWorkbook == <<varsCache, reloj>>

varsToken == <<accessToken, lastTokenRefresh, dropboxInstance>>

varsDropbox == <<varsToken, vigente, archivo, meta, revDropbox, bajada>>

varsServicios == <<varsDeuda, varsLibro, varsWorkbook, varsDropbox>>

vars == <<varsBot, varsServicios>>

--------------------------------------------------------------------------
(* Bounds *)

MaxDay == 2
MaxEnCurso == 1
MaxTimers == 1
MaxActivos == 1
MaxMesLibro == 6
MaxFilas == 2
MaxLlamadas == 2
MaxReloj == 4
MaxRev == 2
MaxBajadas == 2
MaxToken == 3

--------------------------------------------------------------------------
(* Text: a sequence of one-character strings *)

Digits == <<"0", "1", "2", "3", "4", "5", "6", "7", "8", "9">>

IsDigit(c) == \E i \in 1..10 : Digits[i] = c

DigitVal(c) == (CHOOSE i \in 1..10 : Digits[i] = c) - 1

LowerChar(c) ==
  CASE c = "M" -> "m" [] c = "E" -> "e" [] c = "N" -> "n" [] c = "U" -> "u"
    [] c = "Ú" -> "ú" [] c = "B" -> "b" [] c = "C" -> "c" [] c = "H" -> "h"
    [] OTHER -> c

ToLowerCase(t) == [i \in 1..Len(t) |-> LowerChar(t[i])]

StartsWith(t, p) == Len(t) >= Len(p) /\ SubSeq(t, 1, Len(p)) = p

RECURSIVE TrimStart(_)
TrimStart(t) ==
  IF t # <<>> /\ Head(t) = " " THEN TrimStart(Tail(t)) ELSE t

RECURSIVE TrimEnd(_)
TrimEnd(t) ==
  IF t # <<>> /\ t[Len(t)] = " " THEN TrimEnd(SubSeq(t, 1, Len(t) - 1)) ELSE t

Trim(t) == TrimEnd(TrimStart(t))

IdLen == 13

\* Mutant: the pattern without its quantifier, /^\d+$/.
EsIdentidadSinLongitud(t) == t # <<>> /\ \A i \in 1..Len(t) : IsDigit(t[i])

\* /^\d{13}$/.test(mensaje)
EsIdentidad(t) == Len(t) = IdLen /\ \A i \in 1..Len(t) : IsDigit(t[i])

RECURSIVE LeadingDigits(_, _)
LeadingDigits(t, acc) ==
  IF t # <<>> /\ IsDigit(Head(t))
    THEN LeadingDigits(Tail(t), IF acc >= 1000000 THEN acc
                                ELSE acc * 10 + DigitVal(Head(t)))
    ELSE acc

\* parseInt(t, 10), the value saturated above a million (it is only compared with
\* the length of a list): optional sign, then the leading digits; NaN without any.
ParseInt(t) ==
  LET s == TrimStart(t)
      neg == s # <<>> /\ Head(s) = "-"
      r == IF s # <<>> /\ Head(s) \in {"-", "+"} THEN Tail(s) ELSE s
  IN IF r = <<>> \/ ~IsDigit(Head(r)) THEN [nan |-> TRUE, val |-> 0]
     ELSE [nan |-> FALSE,
           val |-> IF neg THEN 0 - LeadingDigits(r, 0) ELSE LeadingDigits(r, 0)]

--------------------------------------------------------------------------
(* Amounts and ledger cells *)

\* Amounts are held in hundredths of a lempira.
Lps(n) == n * 100

\* A cell value as exceljs gives it: null, a number (n, in hundredths), a
\* string (s), or an object with a text (s, rich text) or a result (n, formula).
CeldaVacia == [t |-> "null", n |-> 0, s |-> <<>>]
CeldaNum(n) == [t |-> "num", n |-> n, s |-> <<>>]
CeldaTexto(s) == [t |-> "str", n |-> 0, s |-> s]
CeldaObjeto(text, result) == [t |-> "obj", n |-> result, s |-> text]

RECURSIVE NatToText(_)
NatToText(n) ==
  IF n < 10 THEN <<Digits[n + 1]>>
  ELSE NatToText(n \div 10) \o <<Digits[(n % 10) + 1]>>

\* Number.prototype.toString() of a number of hundredths.
NumToString(c) ==
  LET ent == NatToText(c \div 100)
      d1 == (c % 100) \div 10
      d2 == c % 10
  IN IF c % 100 = 0 THEN ent
     ELSE IF d2 = 0 THEN ent \o <<".", Digits[d1 + 1]>>
     ELSE ent \o <<".", Digits[d1 + 1], Digits[d2 + 1]>>

\* valor.toString() of a non-null cell value.
CeldaToString(v) == IF v.t = "str" THEN v.s ELSE NumToString(v.n)

\* !valor
Falsy(v) ==
  \/ v.t = "null"
  \/ v.t = "num" /\ v.n = 0
  \/ v.t = "str" /\ v.s = <<>>

\* s.includes(c)
Includes(s, c) == \E i \in 1..Len(s) : s[i] = c

\* s.replace(/[^0-9.]/g, '')
SoloDigitosYPunto(s) == SelectSeq(s, LAMBDA c : IsDigit(c) \/ c = ".")

\* s.replace(/\s/g, '')
SinEspacios(s) == SelectSeq(s, LAMBDA c : c # " ")

\* s.replace(p, ''): the first occurrence of the string p is removed.
RECURSIVE ReplaceFirst(_, _)
ReplaceFirst(s, p) ==
  IF Len(s) < Len(p) THEN s
  ELSE IF StartsWith(s, p) THEN SubSeq(s, Len(p) + 1, Len(s))
  ELSE <<Head(s)>> \o ReplaceFirst(Tail(s), p)

RECURSIVE PrefijoDigitos(_)
PrefijoDigitos(s) ==
  IF s # <<>> /\ IsDigit(Head(s)) THEN <<Head(s)>> \o PrefijoDigitos(Tail(s)) ELSE <<>>

RECURSIVE ValorDigitos(_, _)
ValorDigitos(s, acc) ==
  IF s = <<>> THEN acc ELSE ValorDigitos(Tail(s), acc * 10 + DigitVal(Head(s)))

\* parseFloat(s), in hundredths (decimals after the second are dropped): leading
\* whitespace, an optional sign, digits, an optional point and digits; NaN
\* when there is no digit.  What follows the number is ignored.
ParseFloat(s) ==
  LET t == TrimStart(s)
      neg == t # <<>> /\ Head(t) = "-"
      r == IF t # <<>> /\ Head(t) \in {"-", "+"} THEN Tail(t) ELSE t
      ent == PrefijoDigitos(r)
      resto == SubSeq(r, Len(ent) + 1, Len(r))
      dec == IF resto # <<>> /\ Head(resto) = "." THEN PrefijoDigitos(Tail(resto)) ELSE <<>>
      dec2 == SubSeq(dec \o <<"0", "0">>, 1, 2)
      abs == ValorDigitos(ent, 0) * 100 + ValorDigitos(dec2, 0)
  IN IF ent = <<>> /\ dec = <<>> THEN [nan |-> TRUE, val |-> 0]
     ELSE [nan |-> FALSE, val |-> IF neg THEN 0 - abs ELSE abs]

\* parseFloat(s) || 0
ParseFloatOrZero(s) == IF ParseFloat(s).nan THEN 0 ELSE ParseFloat(s).val

--------------------------------------------------------------------------
(* Users, students, inbound messages *)

Users == {"u1", "a1", "u2"}

\* The users that write to the bot; u2 is a guardian on record who stays silent.
Remitentes == {"u1", "a1"}

Admins == {"a1"}

isAdmin(u) == u \in Admins

Id1 == <<"0", "8", "0", "1", "2", "0", "1", "0", "0", "0", "0", "1", "1">>

Id2 == <<"0", "8", "0", "1", "2", "0", "1", "0", "0", "0", "0", "2", "2">>

Ids == {Id1, Id2}

NoId == <<>>

\* A row of the ledger as far as the controller reads it: identity and name.
FilaDe(id, nombre, total) == [id |-> id, nombre |-> nombre, total |-> total]

Fila(id, nombre) == FilaDe(id, nombre, CeldaNum(Lps(500)))

\* The two header rows of the sheet.
Cabecera == Fila(NoId, "")

LibroCompleto == <<Cabecera, Cabecera, Fila(Id1, "Ana"), Fila(Id2, "Luis")>>

\* A later revision of the spreadsheet: Id2's row is gone, Id1's name cell is blank.
LibroReducido == <<Cabecera, Cabecera, Fila(Id1, "")>>

Libros == {LibroCompleto, LibroReducido}

PinDe(id) == IF id = Id1 THEN <<"1", "2", "3", "4">> ELSE <<"5", "6", "7", "8">>

validarPIN(id, pin) == id \in Ids /\ pin = PinDe(id)

T_menu == <<"m", "e", "n", "u">>
T_menuAcento == <<"m", "e", "n", "ú">>
T_MENU == <<"M", "E", "N", "U">>
T_MenuAcento == <<"M", "e", "n", "Ú">>
T_bc == <<"b", "c", " ", "h", "i">>
T_Broadcast == <<"B", "r", "o", "a", "d", "c", "a", "s", "t", " ", "h", "i">>
T_bcSolo == <<"b", "c">>
T_hola == <<"h", "o", "l", "a">>
T_unoAbc == <<"1", "a", "b", "c">>
T_menosUno == <<"-", "1">>
T_id12 == SubSeq(Id1, 1, 12)
T_id13Letra == [Id1 EXCEPT ![13] = "a"]
T_idSinFila == [Id1 EXCEPT ![13] = "9"]

Textos ==
  {T_menu, T_menuAcento, T_MENU, T_MenuAcento, T_bc, T_Broadcast, T_bcSolo,
   T_hola, T_unoAbc, T_menosUno, T_id12, T_id13Letra, T_idSinFila, Id1, Id2,
   PinDe(Id1), PinDe(Id2),
   <<"0">>, <<"1">>, <<"2">>, <<"3">>, <<"4">>, <<"5">>, <<"6">>, <<"7">>,
   <<"1", " ">>}

\* msg.message of a messages.upsert event: the key that is present, its text,
\* and for an extendedTextMessage the kind of the quoted message ("" if none).
Mensaje(tipo, texto, cita) == [tipo |-> tipo, texto |-> texto, cita |-> cita]

Multimedia ==
  {Mensaje("extendedTextMessage", T_hola, ""),
   Mensaje("extendedTextMessage", T_hola, "imageMessage"),
   Mensaje("imageMessage", <<>>, ""),
   Mensaje("conversation", <<" ">>, "")}

Mensajes == {Mensaje("conversation", t, "") : t \in Textos} \cup Multimedia

\* What each user sends: the administrator does not register students.
TextosAdmin == {T_menu, T_MENU, T_bc, T_hola, <<"3">>, <<"6">>, <<"7">>}

MensajesAdmin == {Mensaje("conversation", t, "") : t \in TextosAdmin} \cup Multimedia

MensajesDe(u) == IF u \in Admins THEN MensajesAdmin ELSE Mensajes

--------------------------------------------------------------------------
(* stateService, encargadoService: the persisted records *)

DatosVacios == [idEstudiante |-> NoId, alumnos |-> <<>>]

Estado(e, d) == [estado |-> e, datos |-> d]

EstadosDefinidos ==
  {"MENU_PRINCIPAL", "REGISTRO_ID", "REGISTRO_PIN", "SELECCION_ALUMNO",
   "ELIMINAR_ALUMNO", "MENU_ADMIN_BROADCAST"}

obtenerEstado(st, u) == st.estados[u]

establecerEstado(st, u, e, d) == [st EXCEPT !.estados[u] = Estado(e, d)]

obtenerUltimoSaludo(st, u) == st.ultimoSaludo[u]

establecerUltimoSaludo(st, u, d) == [st EXCEPT !.ultimoSaludo[u] = d]

obtenerAlumnosEncargado(st, u) == st.encargados[u]

EnSeq(s, x) == \E k \in 1..Len(s) : s[k] = x

registrarEncargado(st, u, id) ==
  IF EnSeq(st.encargados[u], id) THEN st
  ELSE [st EXCEPT !.encargados[u] = Append(@, id)]

RECURSIVE Quitar(_, _)
Quitar(s, x) ==
  IF s = <<>> THEN <<>>
  ELSE IF Head(s) = x THEN Quitar(Tail(s), x)
  ELSE <<Head(s)>> \o Quitar(Tail(s), x)

\* eliminarRelacion returns whether a link was removed.
eliminarRelacionOk(st, u, id) == EnSeq(st.encargados[u], id)

eliminarRelacion(st, u, id) == [st EXCEPT !.encargados[u] = Quitar(@, id)]

\* The recipients of a broadcast: the guardians on record.
Destinatarios(st) == {g \in Users : st.encargados[g] # <<>>}

--------------------------------------------------------------------------
(* studentService.buscarEstudiante as the controller sees it *)

NoEstudiante == [existe |-> FALSE, id |-> NoId, nombre |-> "", totalPagar |-> 0]

\* The normalisation of the TOTAL_PAGAR cell.
TotalPagar(valorCelda) ==
  LET totalPagar ==
        CASE valorCelda.t = "num" -> valorCelda.n
          [] valorCelda.t = "str" -> ParseFloatOrZero(SoloDigitosYPunto(valorCelda.s))
          [] valorCelda.t = "obj" ->
               IF valorCelda.s # <<>> THEN ParseFloatOrZero(SoloDigitosYPunto(valorCelda.s))
               ELSE valorCelda.n
          [] OTHER -> 0
  IN IF valorCelda.t = "str" /\ valorCelda.s # <<>> /\ Includes(valorCelda.s, ",")
       THEN ParseFloatOrZero(
              ReplaceFirst(SinEspacios(ReplaceFirst(ReplaceFirst(valorCelda.s, <<"L", ".">>),
                                                    <<"L">>)),
                           <<",">>))
       ELSE totalPagar

FirstDataRow == 3

\* eachRow visits every row; a matching row overwrites the result.
RECURSIVE BuscarDesde(_, _, _, _)
BuscarDesde(filas, id, rowNumber, estudiante) ==
  IF rowNumber > Len(filas) THEN estudiante
  ELSE IF rowNumber < FirstDataRow THEN BuscarDesde(filas, id, rowNumber + 1, estudiante)
  ELSE IF filas[rowNumber].id = id
    THEN BuscarDesde(filas, id, rowNumber + 1,
                     [existe |-> TRUE, id |-> id, nombre |-> filas[rowNumber].nombre,
                      totalPagar |-> TotalPagar(filas[rowNumber].total)])
  ELSE BuscarDesde(filas, id, rowNumber + 1, estudiante)

buscarEstudiante(filas, id) == BuscarDesde(filas, id, 1, NoEstudiante)

--------------------------------------------------------------------------
(* Outbound messages and suspended handlers *)

Msg(para, tipo) ==
  [para |-> para, tipo |-> tipo, opciones |-> {}, lista |-> <<>>,
   contenido |-> <<>>, n |-> 0]

NoContenido == [clase |-> "", texto |-> <<>>]

\* A suspended procesarMensaje call: where it waits (pc), what it does when
\* resumed (sig), and the locals it still needs.
Handler(u, ruta, pc, sig) ==
  [u |-> u, ruta |-> ruta, pc |-> pc, sig |-> sig, tipo |-> "", id |-> NoId,
   alumnos |-> <<>>, i |-> 0, mostrados |-> <<>>, destino |-> "", dest |-> {},
   contenido |-> NoContenido, n |-> 0, ok |-> FALSE]

EsperaEnvio(u, ruta, tipo, sig) == [Handler(u, ruta, "enviar", sig) EXCEPT !.tipo = tipo]

EsperaBuscar(u, ruta, id, sig) == [Handler(u, ruta, "buscar", sig) EXCEPT !.id = id]

\* The result of one synchronous segment.
Res(st, ruta, hs, salida, fallo) ==
  [st |-> st, ruta |-> ruta, hs |-> hs, salida |-> salida, fallo |-> fallo]

Suspender(st, h) == Res(st, h.ruta, {h}, {}, "")

\* A send that ends the handler: delivered, or rejected by the channel.
FinEnvio(st, ruta, msg, ok) ==
  Res(st, ruta, {}, IF ok THEN {msg} ELSE {}, IF ok THEN "" ELSE "envio")

Abortar(st, ruta, fallo) == Res(st, ruta, {}, {}, fallo)

Con(salida, r) == [r EXCEPT !.salida = salida \cup @]

--------------------------------------------------------------------------
(* enviarMenuPrincipal, enviarEstadoPagos, enviarBroadcast *)

OpcionesMenu(st, u) ==
  {1, 2, 3, 4}
    \cup (IF Len(obtenerAlumnosEncargado(st, u)) > 0 THEN {5} ELSE {})
    \cup (IF isAdmin(u) THEN {6} ELSE {})

enviarMenuPrincipal(st, u, ruta, ok) ==
  FinEnvio(establecerEstado(st, u, "MENU_PRINCIPAL", DatosVacios), ruta,
           [Msg(u, "menu") EXCEPT !.opciones = OpcionesMenu(st, u)], ok)

\* enviarEstadoPagos sends the panel, or a notice when the row has no name.
TipoEstadoPagos(estudiante) ==
  IF ~estudiante.existe \/ estudiante.nombre = "" THEN "sinInformacion"
  ELSE "estadoPagos"

\* What enviarBroadcast forwards for a message object.
ContenidoObjeto(m) ==
  IF m.tipo = "extendedTextMessage" /\ m.cita # ""
    THEN [clase |-> m.cita, texto |-> <<>>]
  ELSE IF m.tipo \in {"conversation", "extendedTextMessage"}
    THEN [clase |-> "text", texto |-> m.texto]
  ELSE [clase |-> m.tipo, texto |-> <<>>]

PrefijoBroadcast == <<"b", "r", "o", "a", "d", "c", "a", "s", "t", " ">>

PrefijoBc == <<"b", "c", " ">>

EsComandoBroadcast(textoMinuscula) ==
  StartsWith(textoMinuscula, PrefijoBroadcast) \/ StartsWith(textoMinuscula, PrefijoBc)

ContenidoComando(mensaje, textoMinuscula) ==
  LET n == IF StartsWith(textoMinuscula, PrefijoBroadcast)
             THEN Len(PrefijoBroadcast) ELSE Len(PrefijoBc)
  IN [clase |-> "text", texto |-> Trim(SubSeq(mensaje, n + 1, Len(mensaje)))]

Confirmacion(u, n) == [Msg(u, "confirmacion") EXCEPT !.n = n]

\* enviarBroadcast reads the recipients when called; with none it returns 0
\* without waiting.
Difundir(st, u, ruta, contenido, ok) ==
  LET dest == Destinatarios(st)
  IN IF dest # {}
       THEN Suspender(st, [Handler(u, ruta, "difundir", "") EXCEPT
                             !.dest = dest, !.contenido = contenido])
     ELSE IF ruta = "bcEstado"
       THEN Suspender(st, [EsperaEnvio(u, ruta, "confirmacion", "establecerMenu")
                             EXCEPT !.n = 0])
     ELSE FinEnvio(st, ruta, Confirmacion(u, 0), ok)

--------------------------------------------------------------------------
(* procesarMensaje: from the call to its first await *)

\* Mutant: the date of the last greeting is not consulted.
NecesitaSaludoSiempre(ultimo, d) == TRUE

NecesitaSaludo(ultimo, d) == ultimo # d

EsPalabraMenu(textoMinuscula) ==
  textoMinuscula = T_menu \/ textoMinuscula = T_menuAcento

ContarSaludo(st, u) ==
  [st EXCEPT !.saludosHoy[u] = IF @ < 2 THEN @ + 1 ELSE @]

\* Index chosen in SELECCION_ALUMNO / ELIMINAR_ALUMNO: parseInt(mensaje, 10) - 1.
IndiceValido(mensaje, alumnos) ==
  LET indice == ParseInt(mensaje).val - 1
  IN ~ParseInt(mensaje).nan /\ indice >= 0 /\ indice < Len(alumnos)

ListaAlumnos(st, u, ruta, alumnos, destino) ==
  Suspender(st, [EsperaBuscar(u, ruta, alumnos[1], "lista") EXCEPT
                   !.alumnos = alumnos, !.i = 1, !.destino = destino])

\* Mutant: option 6 opens the broadcast menu without asking who sends it.
OpcionSeisSinPermiso(st, u, ok) ==
  FinEnvio(establecerEstado(st, u, "MENU_ADMIN_BROADCAST", DatosVacios),
           "op6", Msg(u, "menuBroadcast"), ok)

OpcionSeis(st, u, ok) ==
  IF isAdmin(u)
    THEN FinEnvio(establecerEstado(st, u, "MENU_ADMIN_BROADCAST", DatosVacios),
                  "op6", Msg(u, "menuBroadcast"), ok)
    ELSE Suspender(st, EsperaEnvio(u, "op6", "opcionNoValida", "menu"))

\* Mutant: the menu is rendered again without the warning.
OpcionDefaultSinAviso(st, u, esPrimerMensajeDelDia, ok) ==
  enviarMenuPrincipal(st, u, "opDefault", ok)

OpcionDefault(st, u, esPrimerMensajeDelDia, ok) ==
  IF ~esPrimerMensajeDelDia
    THEN Suspender(st, EsperaEnvio(u, "opDefault", "opcionInvalida", "menu"))
    ELSE enviarMenuPrincipal(st, u, "opDefault", ok)

MenuPrincipal(st, u, mensaje, alumnos, esPrimerMensajeDelDia, ok) ==
  CASE mensaje = <<"1">> ->
         FinEnvio(establecerEstado(st, u, "REGISTRO_ID", DatosVacios), "op1",
                  Msg(u, "pedirIdentidad"), ok)
    [] mensaje = <<"6">> -> OpcionSeis(st, u, ok)
    [] mensaje = <<"2">> ->
         IF Len(alumnos) = 0
           THEN Suspender(st, EsperaEnvio(u, "op2", "sinAlumnos", "menu"))
         ELSE IF Len(alumnos) = 1
           THEN Suspender(st, EsperaBuscar(u, "op2", alumnos[1], "consulta"))
         ELSE ListaAlumnos(st, u, "op2", alumnos, "SELECCION_ALUMNO")
    [] mensaje = <<"3">> -> FinEnvio(st, "op3", Msg(u, "informacion"), ok)
    [] mensaje = <<"4">> -> FinEnvio(st, "op4", Msg(u, "contacto"), ok)
    [] mensaje = <<"5">> ->
         IF Len(alumnos) = 0
           THEN Suspender(st, EsperaEnvio(u, "op5", "sinAlumnosEliminar", "menu"))
         ELSE ListaAlumnos(st, u, "op5", alumnos, "ELIMINAR_ALUMNO")
    [] OTHER -> OpcionDefault(st, u, esPrimerMensajeDelDia, ok)

RegistroId(st, u, mensaje, ok) ==
  IF EsIdentidad(mensaje)
    THEN Suspender(st, EsperaBuscar(u, "registroId", mensaje, "registroId"))
    ELSE FinEnvio(st, "registroId", Msg(u, "formatoIncorrecto"), ok)

RegistroPin(st, u, mensaje, estado) ==
  Suspender(st, [Handler(u, "registroPin", "validarPIN", "") EXCEPT
                   !.id = estado.datos.idEstudiante,
                   !.ok = validarPIN(estado.datos.idEstudiante, mensaje)])

SeleccionAlumno(st, u, mensaje, estado, ruta, ok) ==
  IF ~IndiceValido(mensaje, estado.datos.alumnos)
    THEN FinEnvio(st, ruta, Msg(u, "seleccionNoValida"), ok)
    ELSE Suspender(st, EsperaBuscar(u, ruta, estado.datos.alumnos[ParseInt(mensaje).val], ruta))

\* Mutant: the switch without its default case.
DespacharSinDefault(st, u, mensaje, estado, alumnos, esPrimerMensajeDelDia, ok) ==
  CASE estado.estado = "MENU_PRINCIPAL" ->
         MenuPrincipal(st, u, mensaje, alumnos, esPrimerMensajeDelDia, ok)
    [] estado.estado = "REGISTRO_ID" -> RegistroId(st, u, mensaje, ok)
    [] estado.estado = "REGISTRO_PIN" -> RegistroPin(st, u, mensaje, estado)
    [] estado.estado = "SELECCION_ALUMNO" ->
         SeleccionAlumno(st, u, mensaje, estado, "seleccion", ok)
    [] estado.estado = "ELIMINAR_ALUMNO" ->
         SeleccionAlumno(st, u, mensaje, estado, "eliminar", ok)
    [] OTHER -> Res(st, "default", {}, {}, "")

Despachar(st, u, mensaje, estado, alumnos, esPrimerMensajeDelDia, ok) ==
  CASE estado.estado = "MENU_PRINCIPAL" ->
         MenuPrincipal(st, u, mensaje, alumnos, esPrimerMensajeDelDia, ok)
    [] estado.estado = "REGISTRO_ID" -> RegistroId(st, u, mensaje, ok)
    [] estado.estado = "REGISTRO_PIN" -> RegistroPin(st, u, mensaje, estado)
    [] estado.estado = "SELECCION_ALUMNO" ->
         SeleccionAlumno(st, u, mensaje, estado, "seleccion", ok)
    [] estado.estado = "ELIMINAR_ALUMNO" ->
         SeleccionAlumno(st, u, mensaje, estado, "eliminar", ok)
    [] OTHER -> enviarMenuPrincipal(st, u, "default", ok)

EstadoBroadcast(st, u, mensajeObj, ok) ==
  IF ~isAdmin(u)
    THEN Suspender(st, EsperaEnvio(u, "bcEstadoDenegado", "sinPermiso", "establecerMenu"))
    ELSE Difundir(st, u, "bcEstado", ContenidoObjeto(mensajeObj), ok)

\* Mutant: the rejection resets the conversation, as the rejection in
\* MENU_ADMIN_BROADCAST does.
ComandoBroadcastReinicia(st, u, mensaje, textoMinuscula, ok) ==
  IF ~isAdmin(u)
    THEN FinEnvio(establecerEstado(st, u, "MENU_PRINCIPAL", DatosVacios),
                  "bcDenegado", Msg(u, "sinPermiso"), ok)
    ELSE Difundir(st, u, "bcComando", ContenidoComando(mensaje, textoMinuscula), ok)

ComandoBroadcast(st, u, mensaje, textoMinuscula, ok) ==
  IF ~isAdmin(u)
    THEN FinEnvio(st, "bcDenegado", Msg(u, "sinPermiso"), ok)
    ELSE Difundir(st, u, "bcComando", ContenidoComando(mensaje, textoMinuscula), ok)

procesarMensaje(st, u, mensaje, mensajeObj, d, ok) ==
  LET estado == obtenerEstado(st, u)
      alumnos == obtenerAlumnosEncargado(st, u)
      textoMinuscula == ToLowerCase(mensaje)
      esPrimerMensajeDelDia == NecesitaSaludo(obtenerUltimoSaludo(st, u), d)
  IN IF esPrimerMensajeDelDia
       THEN Suspender(ContarSaludo(establecerUltimoSaludo(st, u, d), u),
                      EsperaEnvio(u, "saludo", "saludo", "establecerMenu"))
     ELSE IF estado.estado = "MENU_ADMIN_BROADCAST"
       THEN EstadoBroadcast(st, u, mensajeObj, ok)
     ELSE IF EsComandoBroadcast(textoMinuscula)
       THEN ComandoBroadcast(st, u, mensaje, textoMinuscula, ok)
     ELSE IF EsPalabraMenu(textoMinuscula)
       THEN enviarMenuPrincipal(st, u, "menu", ok)
     ELSE Despachar(st, u, mensaje, estado, alumnos, esPrimerMensajeDelDia, ok)

\* The messages.upsert listener: the text of the message, trimmed; a message
\* without text is not processed.
TextoDe(m) ==
  IF m.tipo \in {"conversation", "extendedTextMessage"} THEN Trim(m.texto) ELSE <<>>

\* Mutant: a new message of the user cancels the render still scheduled.
UpsertCancelaRender(st, u, m, d, ok) ==
  IF TextoDe(m) # <<>>
    THEN procesarMensaje([st EXCEPT !.temporizadores[u] = 0], u, TextoDe(m), m, d, ok)
    ELSE Res([st EXCEPT !.temporizadores[u] = 0], "descartado", {}, {}, "")

Upsert(st, u, m, d, ok) ==
  IF TextoDe(m) # <<>>
    THEN procesarMensaje(st, u, TextoDe(m), m, d, ok)
    ELSE Res(st, "descartado", {}, {}, "")

--------------------------------------------------------------------------
(* procesarMensaje: from one await to the next *)

MsgDe(h) == [Msg(h.u, h.tipo) EXCEPT !.lista = h.mostrados, !.n = h.n]

ProgramarMenu(st, u) == [st EXCEPT !.temporizadores[u] = @ + 1]

\* After a send was delivered.
TrasEnvio(st, h, okFin) ==
  CASE h.sig = "establecerMenu" ->
         enviarMenuPrincipal(establecerEstado(st, h.u, "MENU_PRINCIPAL", DatosVacios),
                             h.u, h.ruta, okFin)
    [] h.sig = "menu" -> enviarMenuPrincipal(st, h.u, h.ruta, okFin)
    [] h.sig = "timer" -> Res(ProgramarMenu(st, h.u), h.ruta, {}, {}, "")
    [] OTHER -> Res(st, h.ruta, {}, {}, "")

\* After buscarEstudiante returned estudiante.
TrasBuscar(st, h, estudiante, okFin) ==
  CASE h.sig = "consulta" ->
         IF estudiante.existe
           THEN Suspender(st, EsperaEnvio(h.u, h.ruta, TipoEstadoPagos(estudiante), "menu"))
           ELSE Suspender(st, EsperaEnvio(h.u, h.ruta, "sinInformacionRegistrado", "menu"))
    [] h.sig = "lista" ->
         LET mostrados == IF estudiante.existe THEN Append(h.mostrados, h.id)
                          ELSE h.mostrados
         IN IF h.i < Len(h.alumnos)
              THEN Suspender(st, [h EXCEPT !.i = @ + 1, !.id = h.alumnos[h.i + 1],
                                           !.mostrados = mostrados])
              ELSE FinEnvio(establecerEstado(st, h.u, h.destino,
                                             [DatosVacios EXCEPT !.alumnos = h.alumnos]),
                            h.ruta,
                            [Msg(h.u, "lista") EXCEPT !.lista = mostrados], okFin)
    [] h.sig = "registroId" ->
         IF estudiante.existe
           THEN FinEnvio(establecerEstado(st, h.u, "REGISTRO_PIN",
                                          [DatosVacios EXCEPT !.idEstudiante = h.id]),
                         h.ruta, Msg(h.u, "alumnoEncontrado"), okFin)
           ELSE FinEnvio(st, h.ruta, Msg(h.u, "identidadNoRegistrada"), okFin)
    [] h.sig = "registroPin" ->
         IF estudiante.existe
           THEN Suspender(st, EsperaEnvio(h.u, h.ruta, "registroExitoso", "timer"))
           ELSE Abortar(st, h.ruta, "TypeError")
    [] h.sig = "seleccion" ->
         IF estudiante.existe
           THEN Suspender(st, EsperaEnvio(h.u, h.ruta, TipoEstadoPagos(estudiante), "timer"))
           ELSE Suspender(st, EsperaEnvio(h.u, h.ruta, "alumnoNoEncontrado", "menu"))
    [] h.sig = "eliminar" ->
         IF eliminarRelacionOk(st, h.u, h.id)
           THEN IF estudiante.existe
                  THEN Suspender(eliminarRelacion(st, h.u, h.id),
                                 EsperaEnvio(h.u, h.ruta, "eliminado", "timer"))
                  ELSE Abortar(eliminarRelacion(st, h.u, h.id), h.ruta, "TypeError")
           ELSE Suspender(st, EsperaEnvio(h.u, h.ruta, "errorEliminar", "timer"))
    [] OTHER -> Res(st, h.ruta, {}, {}, "")

\* After validarPIN returned h.ok.
TrasValidarPin(st, h, okFin) ==
  IF h.ok
    THEN Suspender(registrarEncargado(st, h.u, h.id),
                   EsperaBuscar(h.u, h.ruta, h.id, "registroPin"))
    ELSE FinEnvio(st, h.ruta, Msg(h.u, "pinIncorrecto"), okFin)

\* After enviarBroadcast returned: entregados are the recipients whose send
\* succeeded.
TrasDifundir(st, h, entregados, okFin) ==
  LET difusion == {[Msg(g, "difusion") EXCEPT !.contenido = h.contenido.texto,
                                              !.tipo = h.contenido.clase] : g \in entregados}
      n == Cardinality(entregados)
  IN Con(difusion,
         IF h.ruta = "bcEstado"
           THEN Suspender(st, [EsperaEnvio(h.u, h.ruta, "confirmacion", "establecerMenu")
                                 EXCEPT !.n = n])
           ELSE FinEnvio(st, h.ruta, Confirmacion(h.u, n), okFin))

\* ok: the awaited operation succeeded (a send was delivered, the workbook
\* could be read); okFin: a send that ends the handler in this segment is
\* delivered.
Continuar(st, h, filas, ok, okFin, entregados) ==
  CASE h.pc = "enviar" ->
         IF ok THEN Con({MsgDe(h)}, TrasEnvio(st, h, okFin))
         ELSE Abortar(st, h.ruta, "envio")
    [] h.pc = "buscar" ->
         IF ok THEN TrasBuscar(st, h, buscarEstudiante(filas, h.id), okFin)
         ELSE Abortar(st, h.ruta, "buscar")
    [] h.pc = "validarPIN" -> TrasValidarPin(st, h, okFin)
    [] h.pc = "difundir" -> TrasDifundir(st, h, entregados, okFin)
    [] OTHER -> Res(st, h.ruta, {}, {}, "")

--------------------------------------------------------------------------
(* Actions *)

Store ==
  [estados |-> estados, ultimoSaludo |-> ultimoSaludo, encargados |-> encargados,
   temporizadores |-> temporizadores, saludosHoy |-> saludosHoy]

Aplicar(r, u, paso, otros) ==
  /\ BagCardinality(otros) + Cardinality(r.hs) <= MaxEnCurso
  /\ \A x \in Users : r.st.temporizadores[x] <= MaxTimers
  /\ estados' = r.st.estados
  /\ ultimoSaludo' = r.st.ultimoSaludo
  /\ encargados' = r.st.encargados
  /\ temporizadores' = r.st.temporizadores
  /\ saludosHoy' = r.st.saludosHoy
  /\ evento' = [paso |-> paso, u |-> u, ruta |-> r.ruta, salida |-> r.salida,
                fallo |-> r.fallo, fin |-> r.hs = {}]

\* The segment r ends with an error thrown out of procesarMensaje.  The listener
\* awaits procesarMensaje without a try/catch, and procesarMensaje has none, so
\* the promise of the listener is rejected with nothing to handle it.
RechazoNoManejado(r) == r.fallo # ""

\* What the arrival of m from u does in the current state.
AlRecibir(u, m, ok) == Upsert(Store, u, m, hoy, ok)

\* What resuming the suspended handler h does in the current state.
AlReanudar(h, ok, okFin, entregados) ==
  Continuar(Store, h, libro, ok, okFin, entregados)

\* What the scheduled menu render for u does in the current state.
AlDisparar(u, ok) ==
  enviarMenuPrincipal([Store EXCEPT !.temporizadores[u] = @ - 1], u, "timer", ok)

\* A message arrives from u: the listener and procesarMensaje up to its first await.
Recibir(u, m) ==
  /\ Cardinality(activos \cup {u}) <= MaxActivos
  /\ activos' = activos \cup {u}
  /\ \E ok \in BOOLEAN :
       LET r == AlRecibir(u, m, ok)
       IN /\ Aplicar(r, u, "recibir", enCurso)
          /\ enCurso' = enCurso (+) SetToBag(r.hs)
          /\ UNCHANGED <<libro, hoy>>
          /\ UNCHANGED varsServicios

\* A suspended handler is resumed.
Reanudar(h) ==
  /\ BagIn(h, enCurso)
  /\ \E ok \in BOOLEAN, okFin \in BOOLEAN, entregados \in SUBSET h.dest :
       LET r == AlReanudar(h, ok, okFin, entregados)
       IN /\ enCurso' = (enCurso (-) SetToBag({h})) (+) SetToBag(r.hs)
          /\ Aplicar(r, h.u, "reanudar", enCurso (-) SetToBag({h}))
          /\ UNCHANGED <<libro, hoy, activos>>
          /\ UNCHANGED varsServicios

\* A setTimeout(() => enviarMenuPrincipal(bot, remitente), 1500) fires.
DispararTimer(u) ==
  /\ temporizadores[u] > 0
  /\ \E ok \in BOOLEAN :
       LET r == AlDisparar(u, ok)
       IN Aplicar(r, u, "timer", enCurso)
  /\ UNCHANGED <<libro, hoy, enCurso, activos>>
  /\ UNCHANGED varsServicios

EventoEntorno(paso) ==
  [paso |-> paso, u |-> "", ruta |-> "", salida |-> {}, fallo |-> "", fin |-> TRUE]

\* Midnight passes.
AvanzarDia ==
  /\ hoy < MaxDay
  /\ hoy' = hoy + 1
  /\ saludosHoy' = [u \in Users |-> 0]
  /\ evento' = EventoEntorno("dia")
  /\ UNCHANGED <<estados, ultimoSaludo, encargados, libro, enCurso, temporizadores,
                 activos>>
  /\ UNCHANGED varsServicios

\* The cached workbook is refreshed with another revision of the spreadsheet.
ActualizarLibro ==
  /\ \E l \in Libros : l # libro /\ libro' = l
  /\ evento' = EventoEntorno("libro")
  /\ UNCHANGED <<estados, ultimoSaludo, encargados, hoy, enCurso, temporizadores,
                 saludosHoy, activos>>
  /\ UNCHANGED varsServicios

--------------------------------------------------------------------------
(* calcularDeuda (src/services/studentService.js) *)

\* columnas.MESES: the twelve months of the school year, in calendar order.
NumMeses == 12

MesesConfig == [i \in 1..NumMeses |-> i]

\* An instant of the current year (anio 1), ordered as Date values are.  mes0
\* is the Date constructor's 0-based month: 12 is January of the next year.
Instante(anio, mes0, dia, hora) == ((anio * 12 + mes0) * 31 + dia) * 24 + hora

AnioActual == 1

Ahora(mes, dia, hora) == [mes |-> mes, dia |-> dia, hora |-> hora]

\* const inicioMes = estudiante.planDePago === 10 ? 2 : 1
InicioMes(estudiante) ==
  IF estudiante.planDePago.t = "num" /\ estudiante.planDePago.n = Lps(10) THEN 2 ELSE 1

\* !valor || valor.toString().trim() === ''
SinPago(valor) == Falsy(valor) \/ Trim(CeldaToString(valor)) = <<>>

MesesPendientes(estudiante, mesActual) ==
  SelectSeq(MesesConfig,
            LAMBDA num : /\ num >= InicioMes(estudiante)
                         /\ num <= mesActual
                         /\ SinPago(estudiante.meses[num]))

\* new Date(anioMes, mesNum, 11)
FechaVencimiento(mesNum, mesActual) ==
  LET anioMes == IF mesNum = 12 /\ mesActual = 1 THEN AnioActual - 1 ELSE AnioActual
  IN Instante(anioMes, mesNum, 11, 0)

\* Mutant: a late fee of 10%.
RecargoDoble(cuotaMensual) == cuotaMensual * 10

\* cuotaMensual * 0.05, in ten-thousandths
Recargo(cuotaMensual) == cuotaMensual * 5

RECURSIVE DeudaMora(_, _, _, _)
DeudaMora(pendientes, i, t, cuotaMensual) ==
  IF i > Len(pendientes) THEN 0
  ELSE (IF Instante(AnioActual, t.mes - 1, t.dia, t.hora)
             > FechaVencimiento(pendientes[i], t.mes)
          THEN Recargo(cuotaMensual) ELSE 0)
       + DeudaMora(pendientes, i + 1, t, cuotaMensual)

\* toFixed(2) of an amount in ten-thousandths: hundredths, rounded.
ToFixed2(x) == (x + 50) \div 100

NoDeuda == [calculada |-> FALSE]

NoPanel == [enviado |-> FALSE]

calcularDeuda(estudiante, t) ==
  LET mesActual == t.mes
      mesesPendientes == MesesPendientes(estudiante, mesActual)
      cuotaMensual == estudiante.totalPagar
      deudaMora == DeudaMora(mesesPendientes, 1, t, cuotaMensual)
      deudaMensualidad == cuotaMensual * 100 * Len(mesesPendientes)
      totalDeuda == deudaMensualidad + deudaMora
  IN [calculada |-> TRUE,
      deudaMensualidad |-> ToFixed2(deudaMensualidad),
      deudaMora |-> ToFixed2(deudaMora),
      totalDeuda |-> ToFixed2(totalDeuda),
      mesesPendientes |-> mesesPendientes,
      cuotaMensual |-> ToFixed2(cuotaMensual * 100),
      alDia |-> Len(mesesPendientes) = 0]

\* The students calcularDeuda is called with: the months up to MaxMesLibro are
\* paid or not, later months have no entry yet.
PlanesDePago == {CeldaNum(Lps(10)), CeldaNum(Lps(11)), CeldaTexto(<<"1", "0">>)}

Cuotas == {Lps(500), 33333}

CeldasSinPago == {CeldaVacia, CeldaNum(0), CeldaTexto(<<>>), CeldaTexto(<<" ">>)}

CeldasPagadas == {CeldaNum(Lps(500)), CeldaTexto(<<"0">>)}

AlumnosDeuda ==
  { [planDePago |-> plan, totalPagar |-> cuota,
     meses |-> [i \in 1..NumMeses |->
                  IF i \in pagados THEN pagada
                  ELSE IF i <= MaxMesLibro THEN sinPago ELSE CeldaVacia]] :
      plan \in PlanesDePago, cuota \in Cuotas, pagados \in SUBSET (1..MaxMesLibro),
      pagada \in CeldasPagadas, sinPago \in CeldasSinPago }

Instantes ==
  { Ahora(mes, dia, hora) : mes \in {1, 2, 6, 7, 12}, dia \in {10, 11, 12, 20},
                             hora \in {0, 8} }

SinAlumno == [planDePago |-> CeldaVacia, totalPagar |-> 0,
              meses |-> [i \in 1..NumMeses |-> CeldaVacia]]

ReposoDeuda ==
  /\ alumnoDeuda = SinAlumno
  /\ ahora = Ahora(1, 1, 0)
  /\ deuda = NoDeuda
  /\ panel = NoPanel

\* const inicioMesIndex = estudiante.planDePago === 10 ? 1 : 0
InicioMesIndex(estudiante) ==
  IF estudiante.planDePago.t = "num" /\ estudiante.planDePago.n = Lps(10) THEN 1 ELSE 0

\* The month lines of enviarEstadoPagos: the months of the student from
\* inicioMesIndex to the current one, each paid when its value is truthy.
EstadoPagos(estudiante, t) ==
  LET mesActualIndex == t.mes - 1
      mostrados == SelectSeq(MesesConfig,
                             LAMBDA num : /\ num - 1 >= InicioMesIndex(estudiante)
                                          /\ num - 1 < mesActualIndex + 1)
  IN [enviado |-> TRUE,
      lineas |-> [i \in 1..Len(mostrados) |->
                    [mes |-> mostrados[i],
                     pagado |-> ~Falsy(estudiante.meses[mostrados[i]])]]]

\* The payment panel asks for the debt of the student and renders its lines.
CalcularDeuda ==
  /\ deuda = NoDeuda
  /\ deuda' = calcularDeuda(alumnoDeuda, ahora)
  /\ panel' = EstadoPagos(alumnoDeuda, ahora)
  /\ UNCHANGED <<alumnoDeuda, ahora, varsBot, varsLibro, varsWorkbook, varsDropbox>>

--------------------------------------------------------------------------
(* buscarEstudiante on a sheet (src/services/studentService.js) *)

\* Values found in the TOTAL_PAGAR column.
CeldasTotal ==
  { CeldaNum(Lps(500)),
    CeldaTexto(<<"L", ".", " ", "5", "0", "0", ".", "0", "0">>),
    CeldaTexto(<<"L", ".", " ", "1", ",", "5", "0", "0", ".", "0", "0">>),
    CeldaTexto(<<"1", ",", "0", "0", "0", ",", "0", "0", "0">>),
    CeldaTexto(<<"5", "0", "0">>),
    CeldaTexto(<<"a", "b", "c">>),
    CeldaTexto(<<"L", " ", "3", "0", "0", ".", "5", "0">>),
    CeldaObjeto(<<"L", ".", " ", "2", "0", "0">>, 0),
    CeldaObjeto(<<>>, Lps(750)),
    CeldaVacia }

FilasDeDatos ==
  { FilaDe(id, nombre, total) : id \in Ids, nombre \in {"Ana", "Luis"},
                                total \in CeldasTotal }

\* A header row may hold anything, the id of a student included.
Cabeceras == {Cabecera, FilaDe(Id1, "Titulo", CeldaVacia)}

RECURSIVE SeqsHasta(_, _)
SeqsHasta(S, n) ==
  IF n = 0 THEN {<<>>}
  ELSE SeqsHasta(S, n - 1) \cup
       {Append(sq, x) : sq \in {q \in SeqsHasta(S, n - 1) : Len(q) = n - 1}, x \in S}

Hojas ==
  { <<Cabecera, c>> \o datos : c \in Cabeceras, datos \in SeqsHasta(FilasDeDatos, MaxFilas) }

NoBuscado == [buscado |-> FALSE, estudiante |-> NoEstudiante]

ReposoLibro ==
  /\ hoja = <<>>
  /\ idBuscado = NoId
  /\ hallado = NoBuscado

\* hoja.eachRow(...) for the id asked, and the return.
Buscar ==
  /\ ~hallado.buscado
  /\ hallado' = [buscado |-> TRUE, estudiante |-> buscarEstudiante(hoja, idBuscado)]
  /\ UNCHANGED <<hoja, idBuscado, varsBot, varsDeuda, varsWorkbook, varsDropbox>>

--------------------------------------------------------------------------
(* The workbook cache and its fetcher (src/unnamed/part_000) *)

\* 60 minutes, in half hours
CACHE_REFRESH_INTERVAL == 2

MAX_RETRIES == 3

Llamadores == 1..MaxLlamadas

\* A getWorkbook call: where it is (pc), its `now`, the loop variable of
\* downloadExcelWithRetry, what the fetcher returned or threw (descarga), the
\* buffer, the workbook returned, and the history of the fetcher: requests
\* issued, requests failed, waits completed.
Llamada(pc, now, attempt, descarga, buffer, resultado, intentos, fallos, esperas) ==
  [pc |-> pc, now |-> now, attempt |-> attempt, descarga |-> descarga,
   buffer |-> buffer, resultado |-> resultado,
   intentos |-> intentos, fallos |-> fallos, esperas |-> esperas]

LlamadaLibre == Llamada("libre", 0, 0, "", 0, 0, 0, 0, 0)

\* Mutant: a cached workbook never expires.
CacheVencidaSinTTL(now) == cachedWorkbook = 0

\* !cachedWorkbook || (now - lastFetchTime) > CACHE_REFRESH_INTERVAL
CacheVencida(now) ==
  cachedWorkbook = 0 \/ (now - lastFetchTime) > CACHE_REFRESH_INTERVAL

\* Mutant: the fetcher gives up one attempt early.
UltimoIntentoAntes(attempt, retries) == attempt + 1 >= retries

\* attempt === retries
UltimoIntento(attempt, retries) == attempt = retries

\* getWorkbook() is called: up to the first request of the fetcher, or to the
\* return of the cached workbook.
GetWorkbook(c) ==
  /\ llamada[c].pc \in {"libre", "hecho", "fallo"}
  /\ llamada' = [llamada EXCEPT ![c] =
        IF CacheVencida(reloj)
          THEN Llamada("descarga", reloj, 1, "", 0, 0, 1, 0, 0)
          ELSE Llamada("hecho", reloj, 0, "", 0, cachedWorkbook, 0, 0, 0)]
  /\ UNCHANGED <<cachedWorkbook, lastFetchTime, reloj, revRemota, ultimoRefresco>>
  /\ UNCHANGED <<varsBot, varsDeuda, varsLibro, varsDropbox>>

\* axios.get resolves: the fetcher returns response.data.
DescargaOk(c) ==
  /\ llamada[c].pc = "descarga"
  /\ llamada' = [llamada EXCEPT ![c].pc = "cargar", ![c].descarga = "datos",
                                 ![c].buffer = revRemota]
  /\ UNCHANGED <<cachedWorkbook, lastFetchTime, reloj, revRemota, ultimoRefresco>>
  /\ UNCHANGED <<varsBot, varsDeuda, varsLibro, varsDropbox>>

\* axios.get rejects (timeout or transport error): the catch of the fetcher.
DescargaFalla(c) ==
  /\ llamada[c].pc = "descarga"
  /\ llamada' = [llamada EXCEPT
        ![c].fallos = @ + 1,
        ![c].pc = IF UltimoIntento(llamada[c].attempt, MAX_RETRIES) THEN "fallo" ELSE "espera",
        ![c].descarga = IF UltimoIntento(llamada[c].attempt, MAX_RETRIES) THEN "error" ELSE ""]
  /\ UNCHANGED <<cachedWorkbook, lastFetchTime, reloj, revRemota, ultimoRefresco>>
  /\ UNCHANGED <<varsBot, varsDeuda, varsLibro, varsDropbox>>

\* The 2 seconds are over: attempt++ and the next request.
FinEspera(c) ==
  /\ llamada[c].pc = "espera"
  /\ llamada[c].attempt + 1 <= MAX_RETRIES
  /\ llamada' = [llamada EXCEPT ![c].pc = "descarga", ![c].attempt = @ + 1,
                                 ![c].intentos = @ + 1, ![c].esperas = @ + 1]
  /\ UNCHANGED <<cachedWorkbook, lastFetchTime, reloj, revRemota, ultimoRefresco>>
  /\ UNCHANGED <<varsBot, varsDeuda, varsLibro, varsDropbox>>

\* Mutant: a workbook newer than the one loaded is kept.
AsignarSiMasNuevo(actual, cargado) == IF actual > cargado THEN actual ELSE cargado

\* cachedWorkbook = await loadWorkbook(buffer)
Asignar(actual, cargado) == cargado

\* loadWorkbook resolves: the cache is filled and returned.
Cargar(c) ==
  /\ llamada[c].pc = "cargar"
  /\ cachedWorkbook' = Asignar(cachedWorkbook, llamada[c].buffer)
  /\ lastFetchTime' = llamada[c].now
  /\ llamada' = [llamada EXCEPT ![c].pc = "hecho", ![c].resultado = llamada[c].buffer]
  /\ ultimoRefresco' = reloj
  /\ UNCHANGED <<reloj, revRemota>>
  /\ UNCHANGED <<varsBot, varsDeuda, varsLibro, varsDropbox>>

\* loadWorkbook rejects (the bytes are not a workbook): getWorkbook rejects.
CargarFalla(c) ==
  /\ llamada[c].pc = "cargar"
  /\ llamada' = [llamada EXCEPT ![c].pc = "fallo"]
  /\ UNCHANGED <<cachedWorkbook, lastFetchTime, reloj, revRemota, ultimoRefresco>>
  /\ UNCHANGED <<varsBot, varsDeuda, varsLibro, varsDropbox>>

\* Half an hour passes.
Tic ==
  /\ reloj < MaxReloj
  /\ reloj' = reloj + 1
  /\ UNCHANGED <<cachedWorkbook, lastFetchTime, revRemota, llamada, ultimoRefresco>>
  /\ UNCHANGED <<varsBot, varsDeuda, varsLibro, varsDropbox>>

\* The spreadsheet is edited.
CambioRemoto ==
  /\ revRemota < MaxRev
  /\ revRemota' = revRemota + 1
  /\ UNCHANGED <<cachedWorkbook, lastFetchTime, reloj, llamada, ultimoRefresco>>
  /\ UNCHANGED <<varsBot, varsDeuda, varsLibro, varsDropbox>>

\* let cachedWorkbook = null; let lastFetchTime = 0
ReposoWorkbook ==
  /\ cachedWorkbook = 0
  /\ lastFetchTime = 0
  /\ reloj = 1
  /\ revRemota = 1
  /\ llamada = [c \in Llamadores |-> LlamadaLibre]
  /\ ultimoRefresco = 0

--------------------------------------------------------------------------
(* The Dropbox client, its token and the content cache (src/unnamed/part_001) *)

\* 3600000 ms, in half hours
TOKEN_MAX_AGE == 2

maxRetries == 3

Bajadores == 1..MaxBajadas

\* A downloadWithRetry call: where it is (pc), the request the client is wanted
\* for (sig), who asked for the token refresh (de), the loop variable, the last
\* error caught, the rev read from the .meta file, the token of the client in
\* use (dbx), how it returned (via) or what it threw (error), and as history
\* the outcome of the cache check (verificado) and the number of filesDownload
\* requests issued.
Bajada(pc, forceRefresh) ==
  [pc |-> pc, forceRefresh |-> forceRefresh, sig |-> "", de |-> "", attempt |-> 0,
   lastError |-> "", metaLeida |-> 0, dbx |-> 0, via |-> "", error |-> "",
   verificado |-> "", intentos |-> 0]

\* Mutant: the cached file is served whatever the rev.
RevIgualSiempre(actual, guardada) == TRUE

\* currentMeta.result.rev === meta.rev
RevIgual(actual, guardada) == actual = guardada

BajadaLibre == Bajada("libre", FALSE)

\* getDropboxClient once the token is there: the client is built if there is none.
UsarCliente(d, b, sig, token, last) ==
  LET inst == IF dropboxInstance = 0 THEN token ELSE dropboxInstance
  IN /\ dropboxInstance' = inst
     /\ accessToken' = token
     /\ lastTokenRefresh' = last
     /\ bajada' = [bajada EXCEPT ![d] =
           [b EXCEPT !.pc = IF sig = "meta" THEN "metaReq" ELSE "bajarReq",
                     !.sig = sig, !.dbx = inst,
                     !.intentos = IF sig = "bajar" THEN @ + 1 ELSE @]]

\* getDropboxClient, the token and the time of its refresh being token and last:
\* up to the refresh request, or to the request the client is wanted for.
getDropboxClient(d, b, sig, token, last) ==
  IF token = 0 \/ (last # 0 /\ (reloj - last) > TOKEN_MAX_AGE)
    THEN /\ bajada' = [bajada EXCEPT ![d] =
               [b EXCEPT !.pc = "refresco", !.de = "cliente", !.sig = sig]]
         /\ accessToken' = token
         /\ lastTokenRefresh' = last
         /\ UNCHANGED dropboxInstance
    ELSE UsarCliente(d, b, sig, token, last)

\* The call ends with the error thrown.
Lanzar(d, b, error) ==
  bajada' = [bajada EXCEPT ![d] = [b EXCEPT !.pc = "fallo", !.error = error]]

\* while (attempt < maxRetries) { attempt++; ... }, then throw lastError
Bucle(d, b, token, last) ==
  IF b.attempt < maxRetries
    THEN getDropboxClient(d, [b EXCEPT !.attempt = @ + 1], "bajar", token, last)
    ELSE /\ Lanzar(d, b, b.lastError)
         /\ accessToken' = token
         /\ lastTokenRefresh' = last
         /\ UNCHANGED dropboxInstance

\* downloadWithRetry(path, {forceRefresh}) is called.
DownloadWithRetry(d, forceRefresh) ==
  /\ bajada[d].pc \in {"libre", "hecho", "fallo"}
  /\ IF ~forceRefresh /\ archivo # 0 /\ meta # 0
       THEN getDropboxClient(d, [Bajada("", forceRefresh) EXCEPT !.metaLeida = meta],
                             "meta", accessToken, lastTokenRefresh)
       ELSE Bucle(d, Bajada("", forceRefresh), accessToken, lastTokenRefresh)
  /\ UNCHANGED <<vigente, archivo, meta, revDropbox>>
  /\ UNCHANGED <<varsBot, varsDeuda, varsLibro, varsWorkbook>>

\* The token endpoint answers.
RefrescoOk(d) ==
  /\ bajada[d].pc = "refresco"
  /\ IF bajada[d].de = "cliente"
       THEN UsarCliente(d, bajada[d], bajada[d].sig, vigente, reloj)
       ELSE Bucle(d, bajada[d], vigente, reloj)
  /\ UNCHANGED <<vigente, archivo, meta, revDropbox>>
  /\ UNCHANGED <<varsBot, varsDeuda, varsLibro, varsWorkbook>>

\* The token endpoint fails: refreshDropboxToken throws.
RefrescoFalla(d) ==
  /\ bajada[d].pc = "refresco"
  /\ IF bajada[d].de = "cliente" /\ bajada[d].sig = "meta"
       THEN Bucle(d, [bajada[d] EXCEPT !.verificado = "error"],
                  accessToken, lastTokenRefresh)
       ELSE /\ Lanzar(d, [bajada[d] EXCEPT !.lastError =
                            IF bajada[d].de = "cliente" THEN "refresco" ELSE @],
                      "refresco")
            /\ UNCHANGED varsToken
  /\ UNCHANGED <<vigente, archivo, meta, revDropbox>>
  /\ UNCHANGED <<varsBot, varsDeuda, varsLibro, varsWorkbook>>

\* filesGetMetadata answers.
MetaOk(d) ==
  /\ bajada[d].pc = "metaReq"
  /\ bajada[d].dbx = vigente
  /\ LET b == [bajada[d] EXCEPT !.verificado =
                   IF revDropbox = bajada[d].metaLeida THEN "igual" ELSE "distinta"]
     IN IF RevIgual(revDropbox, bajada[d].metaLeida)
          THEN /\ bajada' = [bajada EXCEPT ![d] = [b EXCEPT !.pc = "hecho", !.via = "cache"]]
               /\ UNCHANGED varsToken
          ELSE Bucle(d, b, accessToken, lastTokenRefresh)
  /\ UNCHANGED <<vigente, archivo, meta, revDropbox>>
  /\ UNCHANGED <<varsBot, varsDeuda, varsLibro, varsWorkbook>>

\* filesGetMetadata fails, for whatever reason: a warning, then the download.
MetaFalla(d) ==
  /\ bajada[d].pc = "metaReq"
  /\ Bucle(d, [bajada[d] EXCEPT !.verificado = "error"], accessToken, lastTokenRefresh)
  /\ UNCHANGED <<vigente, archivo, meta, revDropbox>>
  /\ UNCHANGED <<varsBot, varsDeuda, varsLibro, varsWorkbook>>

\* filesDownload answers: the file and its .meta are written.
BajarOk(d) ==
  /\ bajada[d].pc = "bajarReq"
  /\ bajada[d].dbx = vigente
  /\ archivo' = revDropbox
  /\ meta' = revDropbox
  /\ bajada' = [bajada EXCEPT ![d].pc = "hecho", ![d].via = "descarga"]
  /\ UNCHANGED <<varsToken, vigente, revDropbox>>
  /\ UNCHANGED <<varsBot, varsDeuda, varsLibro, varsWorkbook>>

\* filesDownload answers and the file is written, but writing the .meta file
\* throws (disk full, permissions): the catch of the loop, break, throw.
EscrituraInterrumpida(d) ==
  /\ bajada[d].pc = "bajarReq"
  /\ bajada[d].dbx = vigente
  /\ archivo' = revDropbox
  /\ Lanzar(d, [bajada[d] EXCEPT !.lastError = "escritura"], "escritura")
  /\ UNCHANGED <<varsToken, vigente, meta, revDropbox>>
  /\ UNCHANGED <<varsBot, varsDeuda, varsLibro, varsWorkbook>>

\* filesDownload is refused (401, expired_access_token): the client and the
\* token are dropped and a refresh is requested.
BajarNoAutorizado(d) ==
  /\ bajada[d].pc = "bajarReq"
  /\ bajada[d].dbx # vigente
  /\ dropboxInstance' = 0
  /\ accessToken' = 0
  /\ bajada' = [bajada EXCEPT ![d].pc = "refresco", ![d].de = "catch",
                               ![d].lastError = "401"]
  /\ UNCHANGED <<lastTokenRefresh, vigente, archivo, meta, revDropbox>>
  /\ UNCHANGED <<varsBot, varsDeuda, varsLibro, varsWorkbook>>

\* filesDownload fails otherwise (timeout, transport error): break, throw.
BajarFalla(d) ==
  /\ bajada[d].pc = "bajarReq"
  /\ Lanzar(d, [bajada[d] EXCEPT !.lastError = "red"], "red")
  /\ UNCHANGED <<varsToken, vigente, archivo, meta, revDropbox>>
  /\ UNCHANGED <<varsBot, varsDeuda, varsLibro, varsWorkbook>>

\* The token in use expires: the API accepts only a newer one.
Expira ==
  /\ vigente < MaxToken
  /\ vigente' = vigente + 1
  /\ UNCHANGED <<varsToken, archivo, meta, revDropbox, bajada>>
  /\ UNCHANGED <<varsBot, varsDeuda, varsLibro, varsWorkbook>>

\* The file in Dropbox is replaced.
CambioDropbox ==
  /\ revDropbox < MaxRev
  /\ revDropbox' = revDropbox + 1
  /\ UNCHANGED <<varsToken, vigente, archivo, meta, bajada>>
  /\ UNCHANGED <<varsBot, varsDeuda, varsLibro, varsWorkbook>>

\* let dropboxInstance = null; let accessToken = null; let lastTokenRefresh = null
ReposoDropbox ==
  /\ accessToken = 0
  /\ lastTokenRefresh = 0
  /\ dropboxInstance = 0
  /\ vigente = 1
  /\ archivo = 0
  /\ meta = 0
  /\ revDropbox = 1
  /\ bajada = [d \in Bajadores |-> BajadaLibre]

\* encargados.json as the process finds it: u2 registered Id2 in an earlier run.
EncargadosIniciales == [u \in Users |-> IF u = "u2" THEN <<Id2>> ELSE <<>>]

\* A value of the state field that the switch of procesarMensaje has no case for.
EstadoDesconocido == "DESCONOCIDO"

\* The conversation records as the process finds them in the key-value store:
\* none, or (previo) one of u1, greeted today, whose state is not one the
\* controller knows.
InitRegistros(previo) ==
  /\ estados = [u \in Users |->
                  IF previo /\ u = "u1" THEN Estado(EstadoDesconocido, DatosVacios)
                  ELSE Estado("MENU_PRINCIPAL", DatosVacios)]
  /\ ultimoSaludo = [u \in Users |-> IF previo /\ u = "u1" THEN 1 ELSE 0]
  /\ activos = IF previo THEN {"u1"} ELSE {}

\* The chatbot as the process starts.
InitBot(previos) ==
  /\ \E previo \in previos : InitRegistros(previo)
  /\ encargados = EncargadosIniciales
  /\ libro = LibroCompleto
  /\ hoy = 1
  /\ enCurso = EmptyBag
  /\ temporizadores = [u \in Users |-> 0]
  /\ saludosHoy = [u \in Users |-> 0]
  /\ evento = EventoEntorno("init")

\* The chatbot before any message, left alone by the specifications of the services.
ReposoBot == InitBot({FALSE})

Init ==
  /\ InitBot(BOOLEAN)
  /\ ReposoDeuda
  /\ ReposoLibro
  /\ ReposoWorkbook
  /\ ReposoDropbox

Next ==
  \/ \E u \in Remitentes : \E m \in MensajesDe(u) : Recibir(u, m)
  \/ \E h \in BagToSet(enCurso) : Reanudar(h)
  \/ \E u \in Users : DispararTimer(u)
  \/ AvanzarDia
  \/ ActualizarLibro

Spec == Init /\ [][Next]_vars

\* calcularDeuda applied to a student and an instant.
InitDeuda ==
  /\ ReposoBot
  /\ ReposoLibro
  /\ ReposoWorkbook
  /\ ReposoDropbox
  /\ alumnoDeuda \in AlumnosDeuda
  /\ ahora \in Instantes
  /\ deuda = NoDeuda
  /\ panel = NoPanel

NextDeuda == CalcularDeuda

SpecDeuda == InitDeuda /\ [][NextDeuda]_vars

\* buscarEstudiante applied to a sheet and an id.
InitLibro ==
  /\ ReposoBot
  /\ ReposoDeuda
  /\ ReposoWorkbook
  /\ ReposoDropbox
  /\ hoja \in Hojas
  /\ idBuscado \in Ids
  /\ hallado = NoBuscado

NextLibro == Buscar

SpecLibro == InitLibro /\ [][NextLibro]_vars

\* The workbook cache with its callers.
InitWorkbook ==
  /\ ReposoBot
  /\ ReposoDeuda
  /\ ReposoLibro
  /\ ReposoWorkbook
  /\ ReposoDropbox

NextWorkbook ==
  \/ \E c \in Llamadores : GetWorkbook(c)
  \/ \E c \in Llamadores : DescargaOk(c)
  \/ \E c \in Llamadores : DescargaFalla(c)
  \/ \E c \in Llamadores : FinEspera(c)
  \/ \E c \in Llamadores : Cargar(c)
  \/ \E c \in Llamadores : CargarFalla(c)
  \/ Tic
  \/ CambioRemoto

SpecWorkbook == InitWorkbook /\ [][NextWorkbook]_vars

\* A request settles (axios gives up after its 15 s timeout at the latest) and
\* the 2 s timer of the fetcher fires.
JustoWorkbook ==
  \A c \in Llamadores :
    /\ WF_vars(DescargaOk(c) \/ DescargaFalla(c))
    /\ WF_vars(FinEspera(c))

SpecWorkbookJusto == SpecWorkbook /\ JustoWorkbook

\* The Dropbox downloader with its callers.
InitDropbox ==
  /\ ReposoBot
  /\ ReposoDeuda
  /\ ReposoLibro
  /\ ReposoWorkbook
  /\ ReposoDropbox

NextDropbox ==
  \/ \E d \in Bajadores, forceRefresh \in BOOLEAN : DownloadWithRetry(d, forceRefresh)
  \/ \E d \in Bajadores : RefrescoOk(d)
  \/ \E d \in Bajadores : RefrescoFalla(d)
  \/ \E d \in Bajadores : MetaOk(d)
  \/ \E d \in Bajadores : MetaFalla(d)
  \/ \E d \in Bajadores : BajarOk(d)
  \/ \E d \in Bajadores : EscrituraInterrumpida(d)
  \/ \E d \in Bajadores : BajarNoAutorizado(d)
  \/ \E d \in Bajadores : BajarFalla(d)
  \/ Expira
  \/ CambioDropbox
  \/ Tic

SpecDropbox == InitDropbox /\ [][NextDropbox]_vars

--------------------------------------------------------------------------
(* Vocabulary of the properties *)

\* The text procesarMensaje receives for message m.
Texto(m) == TextoDe(m)

YaSaludado(u) == ultimoSaludo[u] = hoy

\* m from u passes the three pre-dispatch hooks and reaches the switch.
LlegaAlSwitch(u, m) ==
  /\ Texto(m) # <<>>
  /\ YaSaludado(u)
  /\ estados[u].estado # "MENU_ADMIN_BROADCAST"
  /\ ~EsComandoBroadcast(ToLowerCase(Texto(m)))
  /\ ~EsPalabraMenu(ToLowerCase(Texto(m)))

Tipos(salida) == {x.tipo : x \in salida}

\* The segment r ends its handler / leaves exactly h2 suspended.
Fin(r) == r.hs = {}

Suspendido(r, h2) == r.hs = {h2}

\* The segment r writes neither conversation states nor guardian links.
SinCambios(r) == r.st.estados = estados /\ r.st.encargados = encargados

\* The last step ended a handler without a thrown error.
TerminoBien == evento.fin /\ evento.fallo = ""

--------------------------------------------------------------------------
(* C1 *)

\* r handles the message that triggers the greeting: it stamps the date, runs
\* no state handler and waits for the greeting to be sent.
PasoSaludoInicio(u, r) ==
  /\ r.ruta = "saludo"
  /\ r.st.ultimoSaludo[u] = hoy
  /\ SinCambios(r)
  /\ r.salida = {}
  /\ Suspendido(r, EsperaEnvio(u, "saludo", "saludo", "establecerMenu"))

\* r resumes that handler: unless the greeting was rejected by the channel, it
\* renders the menu, leaves the state MENU_PRINCIPAL and ends.
PasoSaludoFin(u, r) ==
  /\ Fin(r)
  /\ r.fallo \in {"", "envio"}
  /\ Tipos(r.salida) \subseteq {"saludo", "menu"}
  /\ r.salida # {} =>
       /\ "saludo" \in Tipos(r.salida)
       /\ r.st.estados[u] = Estado("MENU_PRINCIPAL", DatosVacios)
  /\ r.fallo = "" => Tipos(r.salida) = {"saludo", "menu"}

\* C1: for every user and date the greeting is started at most once; the message
\* that triggers it (the first one handled while no greeting is recorded for
\* today) is not dispatched to a state handler, and its handling ends with a
\* menu render that leaves the state MENU_PRINCIPAL.
C1_SaludoUnaVezYMenu ==
  /\ \A u \in Users : saludosHoy[u] <= 1
  /\ \A u \in Remitentes : \A m \in MensajesDe(u), ok \in BOOLEAN :
       LET r == AlRecibir(u, m, ok)
       IN /\ (~YaSaludado(u) /\ Texto(m) # <<>>) => PasoSaludoInicio(u, r)
          /\ r.ruta = "saludo" => ~YaSaludado(u)
  /\ \A h \in BagToSet(enCurso) :
       h.ruta = "saludo" =>
         \A ok \in BOOLEAN, okFin \in BOOLEAN :
           PasoSaludoFin(h.u, AlReanudar(h, ok, okFin, {}))

\* A greeting handler has just ended on the second day with the menu rendered.
C1_Witness ==
  /\ evento.ruta = "saludo" /\ evento.paso = "reanudar" /\ TerminoBien
  /\ hoy > 1
  /\ saludosHoy[evento.u] = 1
  /\ estados[evento.u].estado = "MENU_PRINCIPAL"

--------------------------------------------------------------------------
(* C2 *)

\* r only renders the menu for u.
SoloMenu(u, r) ==
  /\ r.ruta = "menu" /\ Fin(r)
  /\ Tipos(r.salida) \subseteq {"menu"}
  /\ r.st.estados[u] = Estado("MENU_PRINCIPAL", DatosVacios)
  /\ r.st.encargados = encargados

\* C2 as stated: once today's greeting was sent, "menu" / "menú" in any letter
\* case is handled only as a menu render, in every conversation state.
C2_MenuDesdeCualquierEstado ==
  \A u \in Remitentes :
    YaSaludado(u) =>
      \A m \in MensajesDe(u), ok \in BOOLEAN :
        EsPalabraMenu(ToLowerCase(Texto(m))) => SoloMenu(u, AlRecibir(u, m, ok))

--------------------------------------------------------------------------
(* C3 *)

\* r rejects a broadcast command of u: at most the permission message goes
\* out, to u alone, and nothing of the records changes.
SoloRechazo(u, r) ==
  /\ r.ruta = "bcDenegado" /\ Fin(r)
  /\ r.salida \subseteq {Msg(u, "sinPermiso")}
  /\ r.fallo = "" => r.salida = {Msg(u, "sinPermiso")}
  /\ SinCambios(r)
  /\ r.st.temporizadores = temporizadores

\* C3 as stated: a broadcast command from a non-privileged user is rejected with
\* the permission message and changes nothing, whatever the state.
C3_ComandoRechazadoSiempre ==
  \A u \in Remitentes \ Admins :
    \A m \in MensajesDe(u), ok \in BOOLEAN :
      EsComandoBroadcast(ToLowerCase(Texto(m))) => SoloRechazo(u, AlRecibir(u, m, ok))

\* C3 (amended): once today's greeting was sent to a non-privileged user, a
\* broadcast command from that user is rejected with the permission message, no
\* guardian receives anything, and the user's state and data are unchanged,
\* whatever the conversation state.
C3_ComandoRechazado ==
  \A u \in Remitentes \ Admins :
    YaSaludado(u) =>
      \A m \in MensajesDe(u), ok \in BOOLEAN :
        EsComandoBroadcast(ToLowerCase(Texto(m))) => SoloRechazo(u, AlRecibir(u, m, ok))

\* A rejection has just happened while the user was entering a PIN.
C3_Witness ==
  /\ evento.ruta = "bcDenegado" /\ evento.paso = "recibir" /\ TerminoBien
  /\ evento.u \notin Admins
  /\ evento.salida = {Msg(evento.u, "sinPermiso")}
  /\ estados[evento.u].estado = "REGISTRO_PIN"

--------------------------------------------------------------------------
(* C4 *)

TreceDigitos(t) ==
  Len(t) = 13 /\ \A i \in 1..Len(t) : t[i] \in {"0", "1", "2", "3", "4", "5", "6", "7", "8", "9"}

HayFila(filas, id) == \E k \in 3..Len(filas) : filas[k].id = id

\* m arrives in REGISTRO_ID: a text that is not 13 digits is rejected at once;
\* 13 digits start the lookup of exactly that identifier.
PasoIdentidad(u, m, r) ==
  /\ SinCambios(r)
  /\ IF TreceDigitos(Texto(m))
       THEN /\ r.salida = {}
            /\ Suspendido(r, EsperaBuscar(u, "registroId", Texto(m), "registroId"))
       ELSE /\ Fin(r)
            /\ r.salida \subseteq {Msg(u, "formatoIncorrecto")}
            /\ r.fallo = "" => r.salida = {Msg(u, "formatoIncorrecto")}

\* The lookup of h.id returned (or the workbook could not be read).
PasoIdentidadBuscada(h, r) ==
  /\ Fin(r) /\ r.st.encargados = encargados
  /\ r.fallo = "buscar" => r.st.estados = estados /\ r.salida = {}
  /\ (r.fallo # "buscar" /\ ~HayFila(libro, h.id)) =>
       /\ r.st.estados = estados
       /\ r.salida \subseteq {Msg(h.u, "identidadNoRegistrada")}
       /\ r.fallo = "" => r.salida # {}
  /\ (r.fallo # "buscar" /\ HayFila(libro, h.id)) =>
       /\ r.st.estados = [estados EXCEPT ![h.u] =
                            Estado("REGISTRO_PIN", [idEstudiante |-> h.id, alumnos |-> <<>>])]
       /\ r.salida \subseteq {Msg(h.u, "alumnoEncontrado")}

\* C4: in REGISTRO_ID an input that is not exactly 13 digits, or 13 digits
\* without a ledger row, is answered with a re-prompt and the state stays
\* REGISTRO_ID; 13 digits with a ledger row move the state to REGISTRO_PIN
\* carrying exactly that identifier.
C4_RegistroId ==
  /\ \A u \in Remitentes :
       estados[u].estado = "REGISTRO_ID" =>
         \A m \in MensajesDe(u), ok \in BOOLEAN :
           LlegaAlSwitch(u, m) => PasoIdentidad(u, m, AlRecibir(u, m, ok))
  /\ \A h \in BagToSet(enCurso) :
       h.sig = "registroId" =>
         \A ok \in BOOLEAN, okFin \in BOOLEAN :
           PasoIdentidadBuscada(h, AlReanudar(h, ok, okFin, {}))

\* A 12-digit identifier has just been rejected in REGISTRO_ID.
C4_Witness ==
  /\ evento.ruta = "registroId" /\ evento.paso = "recibir" /\ TerminoBien
  /\ evento.salida = {Msg(evento.u, "formatoIncorrecto")}
  /\ estados[evento.u].estado = "REGISTRO_ID"

--------------------------------------------------------------------------
(* C5 *)

PinCorrecto(id, t) == t = PinDe(id)

\* What a handler started in REGISTRO_PIN does when resumed.
PasoPin(h, r) ==
  /\ (h.pc = "validarPIN" /\ ~h.ok) =>
       /\ SinCambios(r) /\ Fin(r)
       /\ r.salida \subseteq {Msg(h.u, "pinIncorrecto")}
  /\ (h.pc = "validarPIN" /\ h.ok) =>
       /\ EnSeq(r.st.encargados[h.u], h.id)
       /\ r.st.estados = estados /\ ~Fin(r)
  /\ h.pc # "validarPIN" => r.st.encargados = encargados
  \* once the PIN was accepted, only a failure of the channel or of the ledger
  \* download keeps the handler from scheduling the menu render
  /\ (h.pc # "validarPIN" /\ Fin(r) /\ r.fallo \notin {"envio", "buscar"}) =>
       r.st.temporizadores[h.u] = temporizadores[h.u] + 1

\* C5 as stated: in REGISTRO_PIN a link (user, carried identifier) is created iff
\* the input is the PIN of the carried identifier; on failure nothing changes;
\* on success the menu render is scheduled, and when it fires the state is
\* MENU_PRINCIPAL.
C5_EnlaceSiPinYMenu ==
  /\ \A u \in Remitentes :
       estados[u].estado = "REGISTRO_PIN" =>
         \A m \in MensajesDe(u), ok \in BOOLEAN :
           LlegaAlSwitch(u, m) =>
             LET r == AlRecibir(u, m, ok)
             IN /\ SinCambios(r)
                /\ Suspendido(r, [Handler(u, "registroPin", "validarPIN", "") EXCEPT
                                    !.id = estados[u].datos.idEstudiante,
                                    !.ok = PinCorrecto(estados[u].datos.idEstudiante, Texto(m))])
  /\ \A h \in BagToSet(enCurso) :
       h.ruta = "registroPin" =>
         \A ok \in BOOLEAN, okFin \in BOOLEAN : PasoPin(h, AlReanudar(h, ok, okFin, {}))
  /\ \A u \in Users :
       temporizadores[u] > 0 =>
         \A ok \in BOOLEAN :
           AlDisparar(u, ok).st.estados[u] = Estado("MENU_PRINCIPAL", DatosVacios)

--------------------------------------------------------------------------
(* C6 *)

EsNumeroPuro(t) ==
  t # <<>> /\ \A i \in 1..Len(t) : t[i] \in {"0", "1", "2", "3", "4", "5", "6", "7", "8", "9"}

IndiceDeLista(t, alumnos) ==
  EsNumeroPuro(t) /\ ParseInt(t).val >= 1 /\ ParseInt(t).val <= Len(alumnos)

SoloReintento(u, r) ==
  /\ SinCambios(r) /\ Fin(r)
  /\ r.st.temporizadores = temporizadores
  /\ r.salida \subseteq {Msg(u, "seleccionNoValida")}

\* C6 as stated: in SELECCION_ALUMNO and ELIMINAR_ALUMNO an input that is not
\* purely a number, or a number outside 1..length of the carried list, only
\* re-prompts: state and list unchanged, nothing rendered, no link removed.
C6_IndiceInvalidoReintenta ==
  \A u \in Remitentes :
    estados[u].estado \in {"SELECCION_ALUMNO", "ELIMINAR_ALUMNO"} =>
      \A m \in MensajesDe(u), ok \in BOOLEAN :
        (LlegaAlSwitch(u, m) /\ ~IndiceDeLista(Texto(m), estados[u].datos.alumnos)) =>
          SoloReintento(u, AlRecibir(u, m, ok))

--------------------------------------------------------------------------
(* C7 *)

\* The lookup of the chosen candidate returned: the state's action is performed
\* on it and the handler goes on to the send after which the menu is rendered.
PasoCandidato(h, r) ==
  /\ r.fallo = ""
  /\ h.sig = "seleccion" =>
       \E tipo \in {"estadoPagos", "sinInformacion"}, sig \in {"timer", "menu"} :
         Suspendido(r, EsperaEnvio(h.u, h.ruta, tipo, sig))
  /\ h.sig = "eliminar" =>
       /\ ~EnSeq(r.st.encargados[h.u], h.id)
       /\ \E tipo \in {"eliminado", "errorEliminar"} :
            Suspendido(r, EsperaEnvio(h.u, h.ruta, tipo, "timer"))

\* C7 as stated: every valid index performs the state's action on the candidate
\* at that position and leads to the menu render, for every candidate of the
\* carried list, also one without a ledger row at that moment.
C7_IndiceValidoActua ==
  /\ \A u \in Remitentes :
       estados[u].estado \in {"SELECCION_ALUMNO", "ELIMINAR_ALUMNO"} =>
         \A m \in MensajesDe(u), ok \in BOOLEAN :
           (LlegaAlSwitch(u, m) /\ IndiceDeLista(Texto(m), estados[u].datos.alumnos)) =>
             \E ruta \in {"seleccion", "eliminar"} :
               Suspendido(AlRecibir(u, m, ok),
                          EsperaBuscar(u, ruta,
                            estados[u].datos.alumnos[ParseInt(Texto(m)).val], ruta))
  /\ \A h \in BagToSet(enCurso) :
       (h.pc = "buscar" /\ h.sig \in {"seleccion", "eliminar"}) =>
         \A okFin \in BOOLEAN : PasoCandidato(h, AlReanudar(h, TRUE, okFin, {}))

--------------------------------------------------------------------------
(* C8 *)

\* A message that carries something: media, or text that is not blank.
ConContenido(m) == m.tipo \notin {"conversation", "extendedTextMessage"} \/ Trim(m.texto) # <<>>

\* What a handler started in MENU_ADMIN_BROADCAST does when resumed.
PasoDifusion(h, r) ==
  /\ h.pc = "difundir" =>
       /\ ~Fin(r) /\ r.fallo = ""
       /\ {x.para : x \in r.salida} \subseteq h.dest
  /\ (h.pc = "enviar" /\ r.fallo = "") =>
       /\ Fin(r)
       /\ r.st.estados[h.u] = Estado("MENU_PRINCIPAL", DatosVacios)

\* C8 as stated: while a privileged user is in MENU_ADMIN_BROADCAST every inbound
\* message of that user, text or media, with or without text, starts a fan-out
\* of that message to all known guardians, and after the fan-out the state is
\* MENU_PRINCIPAL whatever the outcome of the individual sends.
C8_TodoMensajeDifundido ==
  /\ \A u \in Remitentes \cap Admins :
       (YaSaludado(u) /\ estados[u].estado = "MENU_ADMIN_BROADCAST") =>
         \A m \in MensajesDe(u), ok \in BOOLEAN :
           ConContenido(m) =>
             Suspendido(AlRecibir(u, m, ok),
                        [Handler(u, "bcEstado", "difundir", "") EXCEPT
                           !.dest = Destinatarios(Store),
                           !.contenido = ContenidoObjeto(m)])
  /\ \A h \in BagToSet(enCurso) :
       h.ruta = "bcEstado" =>
         \A ok \in BOOLEAN, okFin \in BOOLEAN, entregados \in SUBSET h.dest :
           PasoDifusion(h, AlReanudar(h, ok, okFin, entregados))

--------------------------------------------------------------------------
(* C9 *)

FueraDeVocabulario(t) ==
  t \notin {<<"1">>, <<"2">>, <<"3">>, <<"4">>, <<"5">>, <<"6">>}

\* The handler of an unrecognized input is resumed after its warning: unless the
\* channel rejects a send, the warning and the menu go out and the state is
\* MENU_PRINCIPAL.
PasoAvisoYMenu(h, r) ==
  /\ Fin(r) /\ r.fallo \in {"", "envio"}
  /\ r.st.encargados = encargados
  /\ Tipos(r.salida) \subseteq {"opcionInvalida", "menu"}
  /\ r.salida # {} => "opcionInvalida" \in Tipos(r.salida)
  /\ r.fallo = "" =>
       /\ Tipos(r.salida) = {"opcionInvalida", "menu"}
       /\ r.st.estados[h.u] = Estado("MENU_PRINCIPAL", DatosVacios)

\* C9: in MENU_PRINCIPAL an input outside the menu vocabulary renders the menu
\* again and leaves the state MENU_PRINCIPAL; the warning is not sent for the
\* first message of the day (the one that triggers the greeting) and is sent
\* for every later unrecognized input.
C9_AvisoSalvoPrimerMensaje ==
  /\ \A u \in Remitentes : \A m \in MensajesDe(u), ok \in BOOLEAN :
       LET r == AlRecibir(u, m, ok)
       IN /\ (estados[u].estado = "MENU_PRINCIPAL" /\ LlegaAlSwitch(u, m)
                /\ FueraDeVocabulario(Texto(m))) =>
               /\ SinCambios(r) /\ r.salida = {}
               /\ Suspendido(r, EsperaEnvio(u, "opDefault", "opcionInvalida", "menu"))
          /\ ~YaSaludado(u) =>
               /\ r.ruta \in {"saludo", "descartado"}
               /\ \A h \in r.hs : h.tipo # "opcionInvalida"
  /\ \A h \in BagToSet(enCurso) : \A ok \in BOOLEAN, okFin \in BOOLEAN :
       LET r == AlReanudar(h, ok, okFin, {})
       IN /\ h.ruta = "opDefault" => PasoAvisoYMenu(h, r)
          /\ h.ruta = "saludo" =>
               /\ "opcionInvalida" \notin Tipos(r.salida)
               /\ \A h2 \in r.hs : h2.tipo # "opcionInvalida"

\* An unrecognized input, not the first message of the day, has just been
\* answered with the warning and the menu.
C9_Witness ==
  /\ evento.ruta = "opDefault" /\ evento.paso = "reanudar" /\ TerminoBien
  /\ Tipos(evento.salida) = {"opcionInvalida", "menu"}
  /\ estados[evento.u].estado = "MENU_PRINCIPAL"

--------------------------------------------------------------------------
(* C10 *)

\* No menu rendered in the last step for u lists option 6.
SinOpcionSeis(u) ==
  \A x \in evento.salida : (x.para = u /\ x.tipo = "menu") => 6 \notin x.opciones

NuncaEnBroadcast(u) == estados[u].estado # "MENU_ADMIN_BROADCAST"

\* C10 as stated: for a non-privileged user option 6 is never listed, sending
\* it in MENU_PRINCIPAL produces no warning or error message, and the user is
\* never in MENU_ADMIN_BROADCAST.
C10_OpcionSeisSilenciosa ==
  \A u \in Remitentes \ Admins :
    /\ SinOpcionSeis(u) /\ NuncaEnBroadcast(u)
    /\ (estados[u].estado = "MENU_PRINCIPAL") =>
         \A m \in MensajesDe(u), ok \in BOOLEAN :
           (LlegaAlSwitch(u, m) /\ Texto(m) = <<"6">>) =>
             LET r == AlRecibir(u, m, ok)
             IN /\ Fin(r) /\ r.salida = {}
                /\ r.st.estados[u].estado = "MENU_PRINCIPAL"

\* The handler of option 6 of a non-privileged user is resumed after its
\* rejection message.
PasoOpcionSeis(h, r) ==
  /\ Fin(r) /\ r.fallo \in {"", "envio"}
  /\ r.st.encargados = encargados
  /\ Tipos(r.salida) \subseteq {"opcionNoValida", "menu"}
  /\ r.fallo = "" =>
       /\ Tipos(r.salida) = {"opcionNoValida", "menu"}
       /\ r.st.estados[h.u] = Estado("MENU_PRINCIPAL", DatosVacios)

\* C10 (amended): for a non-privileged user option 6 is never listed in a
\* rendered menu; sent in MENU_PRINCIPAL it is answered with the message
\* "Opcion no valida." followed by the menu, the state staying MENU_PRINCIPAL;
\* and no sequence of messages puts that user in MENU_ADMIN_BROADCAST.
C10_OpcionSeisRechazada ==
  \A u \in Remitentes \ Admins :
    /\ SinOpcionSeis(u) /\ NuncaEnBroadcast(u)
    /\ (estados[u].estado = "MENU_PRINCIPAL") =>
         \A m \in MensajesDe(u), ok \in BOOLEAN :
           (LlegaAlSwitch(u, m) /\ Texto(m) = <<"6">>) =>
             LET r == AlRecibir(u, m, ok)
             IN /\ SinCambios(r) /\ r.salida = {}
                /\ Suspendido(r, EsperaEnvio(u, "op6", "opcionNoValida", "menu"))
    /\ \A h \in BagToSet(enCurso) :
         (h.u = u /\ h.ruta = "op6") =>
           \A ok \in BOOLEAN, okFin \in BOOLEAN :
             PasoOpcionSeis(h, AlReanudar(h, ok, okFin, {}))

\* Option 6 of a non-privileged user has just been answered with the rejection
\* and a menu that does not list it.
C10_Witness ==
  /\ evento.ruta = "op6" /\ evento.paso = "reanudar" /\ TerminoBien
  /\ evento.u \notin Admins
  /\ Tipos(evento.salida) = {"opcionNoValida", "menu"}
  /\ \A x \in evento.salida : 6 \notin x.opciones
  /\ estados[evento.u].estado = "MENU_PRINCIPAL"

--------------------------------------------------------------------------
(* C11 *)

\* The segment r stores only defined states: every record it leaves is the one
\* it found or holds one of the six states.
EscribeDefinidos(r) ==
  \A x \in Users :
    r.st.estados[x] = estados[x] \/ r.st.estados[x].estado \in EstadosDefinidos

\* Unless a send is rejected, r renders the menu for u and leaves MENU_PRINCIPAL.
ColapsaAMenu(u, r) ==
  /\ r.st.estados[u] = Estado("MENU_PRINCIPAL", DatosVacios)
  /\ Fin(r)
  /\ Tipos(r.salida) \subseteq {"menu"}
  /\ r.fallo = "" => Tipos(r.salida) = {"menu"}

TodoPasoEscribeDefinidos ==
  /\ \A u \in Remitentes : \A m \in MensajesDe(u), ok \in BOOLEAN :
       EscribeDefinidos(AlRecibir(u, m, ok))
  /\ \A h \in BagToSet(enCurso) :
       \A ok \in BOOLEAN, okFin \in BOOLEAN, entregados \in SUBSET h.dest :
         EscribeDefinidos(AlReanudar(h, ok, okFin, entregados))
  /\ \A u \in Users : temporizadores[u] > 0 =>
       \A ok \in BOOLEAN : EscribeDefinidos(AlDisparar(u, ok))

--------------------------------------------------------------------------
(* C12 *)

\* The error of r, if any, stays inside the handling of u's message: it does
\* not leave the listener and no other user's record changes.
ErrorContenido(u, r) ==
  /\ ~RechazoNoManejado(r)
  /\ \A x \in Users \ {u} : r.st.estados[x] = estados[x]

\* C12 as stated: an error thrown while one message is handled (a rejected
\* send, a failed ledger fetch, a null student) never leaves the message event
\* handler as an unhandled rejection and never changes another user's state.
C12_ErrorContenido ==
  /\ \A u \in Remitentes : \A m \in MensajesDe(u), ok \in BOOLEAN :
       ErrorContenido(u, AlRecibir(u, m, ok))
  /\ \A h \in BagToSet(enCurso) :
       \A ok \in BOOLEAN, okFin \in BOOLEAN, entregados \in SUBSET h.dest :
         ErrorContenido(h.u, AlReanudar(h, ok, okFin, entregados))

--------------------------------------------------------------------------
(* C13 *)

\* r tells u that the operation failed.
AvisaFallo(u, r) == \E x \in r.salida : x.para = u /\ x.tipo = "falloGenerico"

\* C13 as stated: when the ledger lookup a message started fails because the
\* download exhausted its retries, the user is sent a generic failure message.
C13_FalloDeLibroAvisado ==
  \A h \in BagToSet(enCurso) :
    h.pc = "buscar" =>
      \A okFin \in BOOLEAN : AvisaFallo(h.u, AlReanudar(h, FALSE, okFin, {}))

--------------------------------------------------------------------------
(* C14 *)

\* A recorded amount is blank: no value, or a string of nothing but whitespace.
Blanco(valor) == valor.t = "null" \/ (valor.t = "str" /\ Trim(valor.s) = <<>>)

PlanA(estudiante) ==
  estudiante.planDePago.t = "num" /\ estudiante.planDePago.n = Lps(10)

PrimerPeriodo(estudiante) == IF PlanA(estudiante) THEN 2 ELSE 1

EnSecuencia(x, sq) == \E i \in 1..Len(sq) : sq[i] = x

\* C14 as stated: the pending periods are exactly the periods from the first
\* payable one (2 for plan-A, 1 otherwise) to the current one whose recorded
\* amount is blank; a period with any non-blank amount, a numeric 0 included,
\* is not pending.
C14_PendientesSonBlancos ==
  deuda.calculada =>
    \A p \in 1..NumMeses :
      EnSecuencia(p, deuda.mesesPendientes)
        <=> /\ PrimerPeriodo(alumnoDeuda) <= p
            /\ p <= ahora.mes
            /\ Blanco(alumnoDeuda.meses[p])

--------------------------------------------------------------------------
(* C15 *)

\* The 11th day of the month following period p has passed entirely.
PasadoElDia11(p, t) == t.mes > p + 1 \/ (t.mes = p + 1 /\ t.dia > 11)

PendientesTarde(d, t) ==
  {i \in 1..Len(d.mesesPendientes) : PasadoElDia11(d.mesesPendientes[i], t)}

\* C15 as stated: the late fee is 5% of the monthly amount for each pending
\* period whose due day, the 11th of the following month, is over, and nothing
\* for the others: at any time on the 11th itself nothing is accrued.
C15_RecargoTrasElDia11 ==
  deuda.calculada =>
    deuda.deudaMora
      = ToFixed2(alumnoDeuda.totalPagar * 5 * Cardinality(PendientesTarde(deuda, ahora)))

--------------------------------------------------------------------------
(* C16 *)

\* Plan-A, 500 a month, February to April paid, May and June blank, June 20.
EscenarioJunio ==
  /\ PlanA(alumnoDeuda)
  /\ alumnoDeuda.totalPagar = Lps(500)
  /\ \A p \in 2..4 : ~SinPago(alumnoDeuda.meses[p])
  /\ \A p \in 5..6 : Blanco(alumnoDeuda.meses[p])
  /\ ahora.mes = 6 /\ ahora.dia = 20

\* C16: in the June scenario the result is pending [MAY, JUNE], 1000.00
\* pending, 25.00 late fee, 1025.00 due, not current; and always the pending
\* amount is the monthly amount times the number of pending periods, the
\* total is pending amount plus late fee, and the student is current exactly
\* when no period is pending.
C16_DeudaDeJunio ==
  deuda.calculada =>
    /\ EscenarioJunio =>
         /\ deuda.mesesPendientes = <<5, 6>>
         /\ deuda.deudaMensualidad = Lps(1000)
         /\ deuda.deudaMora = Lps(25)
         /\ deuda.totalDeuda = Lps(1025)
         /\ ~deuda.alDia
    /\ deuda.deudaMensualidad = deuda.cuotaMensual * Len(deuda.mesesPendientes)
    /\ deuda.totalDeuda = deuda.deudaMensualidad + deuda.deudaMora
    /\ deuda.alDia <=> deuda.mesesPendientes = <<>>

C16_Witness ==
  /\ deuda.calculada
  /\ EscenarioJunio
  /\ deuda.totalDeuda = Lps(1025)

--------------------------------------------------------------------------
(* C17 *)

\* The data rows (after the 2-row header) that carry the id asked.
FilasConId == {k \in 3..Len(hoja) : hoja[k].id = idBuscado}

PrimeraFila == CHOOSE k \in FilasConId : \A j \in FilasConId : k <= j

\* C17 as stated: only rows after the 2-row header are scanned; when several
\* carry the id, the student is built from the first of them; when none does,
\* the result is not-found.
C17_PrimeraFilaGana ==
  hallado.buscado =>
    IF FilasConId = {} THEN ~hallado.estudiante.existe
    ELSE /\ hallado.estudiante.existe
         /\ hallado.estudiante.nombre = hoja[PrimeraFila].nombre
         /\ hallado.estudiante.totalPagar = TotalPagar(hoja[PrimeraFila].total)

--------------------------------------------------------------------------
(* C18 *)

\* The currency symbol at the start of the text, "L." or "L", removed.
SinSimbolo(s) ==
  LET t == Trim(s)
  IN IF StartsWith(t, <<"L", ".">>) THEN SubSeq(t, 3, Len(t))
     ELSE IF StartsWith(t, <<"L">>) THEN SubSeq(t, 2, Len(t))
     ELSE t

\* The text without currency symbol, thousands separators and whitespace.
Remanente(s) == SelectSeq(SinSimbolo(s), LAMBDA c : c # "," /\ c # " ")

\* The decimal a text denotes, in hundredths; 0 when it is not a number.
DecimalOCero(s) ==
  LET ent == PrefijoDigitos(s)
      resto == SubSeq(s, Len(ent) + 1, Len(s))
      esNumero == /\ ent # <<>>
                  /\ \/ resto = <<>>
                     \/ /\ Head(resto) = "."
                        /\ Tail(resto) # <<>>
                        /\ PrefijoDigitos(Tail(resto)) = Tail(resto)
  IN IF esNumero THEN ParseFloat(s).val ELSE 0

\* The only row with the id asked holds a formatted string as amount due.
CeldaFormateada ==
  /\ hallado.buscado
  /\ Cardinality(FilasConId) = 1
  /\ hoja[PrimeraFila].total.t = "str"

\* C18 as stated: a formatted string yields the decimal left after removing
\* the currency symbol, every thousands separator and all whitespace, or 0
\* when that is not a number: "L. 500.00" gives 500, "L. 1,500.00" gives 1500
\* and "1,000,000" gives 1000000.
C18_TextoFormateado ==
  CeldaFormateada =>
    hallado.estudiante.totalPagar = DecimalOCero(Remanente(hoja[PrimeraFila].total.s))

--------------------------------------------------------------------------
(* C19 *)

\* The fetcher of call c is running.
Descargando(c) == llamada[c].pc \in {"descarga", "espera"}

\* The fetcher of call c has returned data or thrown its terminal error.
DescargaTerminada(c) == llamada[c].descarga # ""

\* What holds of the fetcher at every moment: at most 3 requests; a wait was
\* completed between any two consecutive requests; a failed request short of
\* the third is followed by a wait and a new request; data is returned by the
\* first request that succeeds, every earlier one having failed; the terminal
\* error is thrown exactly when 3 requests have failed.
FetcherCorrecto(c) ==
  LET ll == llamada[c]
  IN /\ ll.intentos <= MAX_RETRIES
     /\ ll.intentos > 0 => ll.esperas = ll.intentos - 1
     /\ ll.pc = "descarga" => ll.fallos = ll.intentos - 1
     /\ ll.pc = "espera" => ll.fallos = ll.intentos /\ ll.intentos < MAX_RETRIES
     /\ ll.descarga = "datos" => ll.fallos = ll.intentos - 1
     /\ ll.descarga = "error" <=> ll.fallos = MAX_RETRIES
     /\ (ll.intentos > 0 /\ ~Descargando(c)) => DescargaTerminada(c)

\* C19: downloadExcelWithRetry makes at most 3 attempts with the wait between
\* consecutive ones, returns the data of the first attempt that succeeds,
\* retries after every failed attempt, throws exactly when all 3 attempts
\* failed, and always terminates.
C19_FetcherTresIntentos ==
  /\ [](\A c \in Llamadores : FetcherCorrecto(c))
  /\ \A c \in Llamadores : Descargando(c) ~> DescargaTerminada(c)

\* The third request succeeds after two failures and two waits.
C19_Witness ==
  \E c \in Llamadores :
    /\ llamada[c].descarga = "datos"
    /\ llamada[c].intentos = MAX_RETRIES
    /\ llamada[c].esperas = 2

--------------------------------------------------------------------------
(* C20 *)

\* Call d ended with the error of a download request that failed for a reason
\* other than authorization.
FalloDeTransporte(d) == bajada[d].pc = "fallo" /\ bajada[d].error = "red"

\* C20 as stated: a download attempt that fails with a timeout or a transport
\* error is retried; the terminal failure is surfaced only when maxRetries
\* attempts have been made.
C20_TransporteReintentado ==
  \A d \in Bajadores : FalloDeTransporte(d) => bajada[d].intentos = maxRetries

--------------------------------------------------------------------------
(* C21 *)

\* The download request of call d is refused for lack of authorization.
Paso401(d) == BajarNoAutorizado(d)

\* The refresh that call d asked for after a refused download completes.
PasoRefrescoTras401(d) == RefrescoOk(d) /\ bajada[d].de = "catch"

\* The refresh that call d asked for after a refused download fails.
PasoRefrescoFallidoTras401(d) == RefrescoFalla(d) /\ bajada[d].de = "catch"

\* C21 as stated: on an authorization failure the token and the client are
\* cleared and a refresh is awaited before anything else; when the refresh
\* completes the download is attempted again with the new token; when the
\* refresh fails the call ends with a terminal error; the download attempts
\* of a call never exceed maxRetries.
C21_RefrescoYReintento ==
  /\ [][\A d \in Bajadores :
          /\ Paso401(d) =>
               /\ accessToken' = 0 /\ dropboxInstance' = 0
               /\ bajada'[d].pc = "refresco"
               /\ bajada'[d].intentos = bajada[d].intentos
          /\ PasoRefrescoTras401(d) =>
               /\ accessToken' = vigente
               /\ bajada'[d].pc = "bajarReq"
               /\ bajada'[d].intentos = bajada[d].intentos + 1
               /\ bajada'[d].dbx = accessToken'
          /\ PasoRefrescoFallidoTras401(d) =>
               bajada'[d].pc = "fallo" /\ bajada'[d].error # ""]_vars
  /\ [](\A d \in Bajadores : bajada[d].intentos <= maxRetries)

--------------------------------------------------------------------------
(* C22 *)

\* Call d was made without forced refresh when the cache held an entry, and
\* the upstream revision is still the one of that entry.
EntradaVigente(d) ==
  /\ ~bajada[d].forceRefresh
  /\ bajada[d].metaLeida # 0
  /\ bajada[d].metaLeida = revDropbox

--------------------------------------------------------------------------
(* C23 *)

\* C23 as stated: at every moment the cached file and the rev stored in its
\* .meta file belong to the same upstream revision, also after a call that
\* failed or was interrupted and under overlapping calls.
C23_ArchivoYMetaJuntos == archivo = meta

--------------------------------------------------------------------------
(* C24 *)

\* Call c ends with an error and without having filled the cache.
PasoRefrescoFallido(c) ==
  (DescargaFalla(c) \/ CargarFalla(c)) /\ llamada'[c].pc = "fallo"

CacheIntacta == UNCHANGED <<cachedWorkbook, lastFetchTime>>

\* C24 as stated: a call downloads nothing while a workbook is cached and at
\* most the interval has passed since the cache was last filled, and starts a
\* refresh otherwise; a refresh that fails leaves the cached workbook and the
\* last-refresh time as they were and ends the call with an error, and the
\* next call attempts a refresh again.
C24_TTLDesdeElRefresco ==
  [][\A c \in Llamadores :
       /\ GetWorkbook(c) =>
            (llamada'[c].pc = "hecho"
               <=> (cachedWorkbook # 0
                      /\ reloj - ultimoRefresco <= CACHE_REFRESH_INTERVAL))
       /\ PasoRefrescoFallido(c) => CacheIntacta]_vars

\* C24, amended: the interval is counted from lastFetchTime, which is the
\* time at which the call that last filled the cache was made, not the time
\* its refresh completed.
C24_TTLDesdeLaLlamada ==
  [][\A c \in Llamadores :
       /\ GetWorkbook(c) =>
            /\ llamada'[c].pc = "hecho"
                 <=> (cachedWorkbook # 0
                        /\ reloj - lastFetchTime <= CACHE_REFRESH_INTERVAL)
            /\ llamada'[c].pc = "hecho" =>
                 llamada'[c].resultado = cachedWorkbook /\ llamada'[c].intentos = 0
            /\ llamada'[c].pc # "hecho" =>
                 llamada'[c].pc = "descarga" /\ llamada'[c].intentos = 1
       /\ Cargar(c) =>
            lastFetchTime' = llamada[c].now /\ cachedWorkbook' = llamada[c].buffer
       /\ PasoRefrescoFallido(c) => CacheIntacta]_vars

\* After a refresh of an expired cache failed, the cache still holds the old
\* workbook and a later call is refreshing again.
C24_Witness ==
  \E c \in Llamadores, c2 \in Llamadores :
    /\ llamada[c].pc = "fallo" /\ llamada[c].fallos = MAX_RETRIES
    /\ cachedWorkbook # 0
    /\ llamada[c].now - lastFetchTime > CACHE_REFRESH_INTERVAL
    /\ llamada[c2].pc = "descarga" /\ llamada[c2].now >= llamada[c].now

--------------------------------------------------------------------------
(* C25 *)

\* Some other call is between its first request and the filling of the cache.
OtraEnCurso(c) ==
  \E c2 \in Llamadores \ {c} : llamada[c2].pc \in {"descarga", "espera", "cargar"}

\* C25: a call made while the cache is empty or expired starts a download of
\* its own even when another call is already refreshing, and every refresh
\* that completes replaces the cached workbook by the one it loaded, so that
\* after overlapping refreshes the cache holds the workbook of the one that
\* completed last.
C25_SinCoalescerUltimoGana ==
  [][\A c \in Llamadores :
       /\ (GetWorkbook(c) /\ OtraEnCurso(c) /\ CacheVencida(reloj)) =>
            llamada'[c].pc = "descarga" /\ llamada'[c].intentos = 1
       /\ Cargar(c) =>
            /\ cachedWorkbook' = llamada[c].buffer
            /\ llamada'[c].resultado = llamada[c].buffer]_vars

\* Two calls made at the same time with an empty cache have both downloaded;
\* the one that was served the older revision completed last, and the cache
\* holds that older revision.
C25_Witness ==
  \E c \in Llamadores, c2 \in Llamadores :
    /\ c # c2
    /\ llamada[c].pc = "hecho" /\ llamada[c2].pc = "hecho"
    /\ llamada[c].now = llamada[c2].now
    /\ llamada[c].intentos >= 1 /\ llamada[c2].intentos >= 1
    /\ llamada[c].resultado < llamada[c2].resultado
    /\ cachedWorkbook = llamada[c].resultado

--------------------------------------------------------------------------
(* C26 *)

RutasConRender == {"registroPin", "seleccion", "eliminar"}

\* The segment r of the handler h schedules the menu render.
Programa(h, r) == r.st.temporizadores[h.u] > temporizadores[h.u]

\* The segment r neither cancels nor fires a scheduled render.
ConservaRenders(r) == \A x \in Users : r.st.temporizadores[x] >= temporizadores[x]

\* C26: the render of the main menu is scheduled only at the end of a
\* REGISTRO_PIN, SELECCION_ALUMNO or ELIMINAR_ALUMNO action, which leaves the
\* stored state of the user as it was; no handling of a message cancels a
\* scheduled render; a message of the user that arrives while the render is
\* pending is handled as if there were none; and when the render fires it
\* stores MENU_PRINCIPAL over whatever state the user has by then.
C26_RenderNoCancelado ==
  /\ \A h \in BagToSet(enCurso), ok \in BOOLEAN, okFin \in BOOLEAN :
       LET r == AlReanudar(h, ok, okFin, {})
       IN /\ ConservaRenders(r)
          /\ Programa(h, r) =>
               /\ h.ruta \in RutasConRender
               /\ r.st.estados = estados
               /\ r.st.temporizadores[h.u] = temporizadores[h.u] + 1
               /\ Fin(r) /\ r.fallo = ""
  /\ \A u \in Remitentes : \A m \in MensajesDe(u), ok \in BOOLEAN :
       LET r == AlRecibir(u, m, ok)
           sinRender == Upsert([Store EXCEPT !.temporizadores[u] = 0], u, m, hoy, ok)
       IN /\ r.st.temporizadores = temporizadores
          /\ r.st.estados = sinRender.st.estados
          /\ r.salida = sinRender.salida
          /\ r.hs = sinRender.hs
  /\ \A u \in Users, ok \in BOOLEAN :
       temporizadores[u] > 0 =>
         LET r == AlDisparar(u, ok)
         IN /\ r.st.estados[u] = Estado("MENU_PRINCIPAL", DatosVacios)
            /\ r.st.temporizadores[u] = temporizadores[u] - 1
            /\ ok => \E x \in r.salida : x.para = u /\ x.tipo = "menu"

\* A render is pending for a user whose newer message has just put the
\* conversation in REGISTRO_ID.
C26_Witness ==
  \E u \in Users :
    /\ temporizadores[u] > 0
    /\ evento.paso = "recibir" /\ evento.u = u
    /\ estados[u].estado = "REGISTRO_ID"

--------------------------------------------------------------------------
(* C27 *)

\* C27 as stated: when the list of SELECCION_ALUMNO or ELIMINAR_ALUMNO has
\* just been sent, the student shown with the number n is the n-th of the
\* candidate list stored with the state, so that replying n acts on the
\* student displayed as n; also when a linked id has no row in the ledger.
C27_NumeroEsPosicion ==
  \A x \in evento.salida :
    x.tipo = "lista" =>
      LET alumnos == estados[x.para].datos.alumnos
      IN \A n \in 1..Len(x.lista) :
           n <= Len(alumnos) /\ x.lista[n] = alumnos[n]

--------------------------------------------------------------------------
(* C28 *)

ConCliente == {"metaReq", "bajarReq"}

\* getDropboxClient returns its client to the call d in this step.
RecibeCliente(d) == bajada[d].pc \notin ConCliente /\ bajada'[d].pc \in ConCliente

\* C28 as stated: the client that getDropboxClient returns was built with the
\* token held at that moment, whatever calls and refreshes came before.
C28_ClienteConTokenActual ==
  [][\A d \in Bajadores : RecibeCliente(d) => bajada'[d].dbx = accessToken']_vars

--------------------------------------------------------------------------
(* C29 *)

\* C29 as stated: lastFetchTime never decreases, whatever the interleaving
\* of overlapping getWorkbook calls.
C29_UltimaDescargaNoRetrocede ==
  [][lastFetchTime' >= lastFetchTime]_vars

--------------------------------------------------------------------------
(* C30 *)

\* C30 as stated: a month line of the payment panel shows "paid" exactly when
\* the month is not among the mesesPendientes that calcularDeuda computed for
\* the same student at the same instant, for every value of the cell and
\* both plans.
C30_PanelIgualQueDeuda ==
  panel.enviado =>
    \A i \in 1..Len(panel.lineas) :
      panel.lineas[i].pagado <=> ~EnSecuencia(panel.lineas[i].mes, deuda.mesesPendientes)

==========================================================================
